---- MODULE Spec2Model ----
(***************************************************************************)
(* PyMolAI: the agent runtime (modules/pymol/ai/runtime.py, AiRuntime) and *)
(* the chat store (modules/pmg_qt/ai_chat_store.py, AiChatStore).          *)
(*                                                                         *)
(* Texts are sequences of characters (one-character strings); a fixed      *)
(* message of the program is a one-element sequence holding the message.   *)
(***************************************************************************)
EXTENDS Integers, Sequences, FiniteSets, TLC

VARIABLES
    \* ---- AiRuntime fields (runtime.py:69-121)
    enabled,                      \* self.enabled
    input_mode,                   \* self.input_mode: "ai" | "cli"
    busy,                         \* self._busy
    cancel_event,                 \* self._cancel_event (threading.Event)
    sdk_session_id,               \* self._sdk_session_id, NoSession for None
    history,                      \* self.history
    ui_events,                    \* self._ui_events, the pending UI event queue
    ui_compaction_notice_sent,    \* self._ui_compaction_notice_sent
    ui_max_events,                \* self.ui_max_events
    stream_had_output,            \* self._stream_had_output
    stream_full_text,             \* self._stream_full_text
    screenshot_validate_required, \* self.screenshot_validate_required
    final_answer_enabled,         \* self.final_answer_enabled
    tool_result_max_chars,        \* self.tool_result_max_chars
    \* ---- threads of the runtime
    wpc,                          \* wpc[t]: position of worker thread t in _agent_worker
    worker,                       \* worker[t]: the locals of worker thread t
    threads_started,              \* worker threads started so far (threading.Thread.start)
    ui_pc,                        \* position of the caller (UI) thread
    \* ---- environment of the runtime
    env_left,                     \* what the user, the Agent Client and the host still do:
                                  \* inputs, cancel requests, chunks, tool calls, results
                                  \* other than a plain answer, failures of host calls
    api_key_set,                  \* OPENROUTER_API_KEY or ANTHROPIC_AUTH_TOKEN is set
    disable_flag,                 \* PYMOL_AI_DISABLE is "1"
    cli_commands,                 \* the commands _execute_cli_command gave to the host
    drained,                      \* the events drain_ui_events has returned, in order
    emit_log,                     \* the events EmitUiEvent passed to emit_ui_event
    appender                      \* appender[t]: thread t's position in _append_history
                                  \* and what it holds, when its appends are followed
                                  \* instruction by instruction

\* the process environment and what the caller of the runtime has seen
ctl_vars == <<api_key_set, disable_flag, cli_commands, drained, emit_log, appender>>

rt_vars == <<enabled, input_mode, busy, cancel_event, sdk_session_id, history, ui_events,
             ui_compaction_notice_sent, ui_max_events, stream_had_output, stream_full_text,
             screenshot_validate_required, final_answer_enabled, tool_result_max_chars, wpc,
             worker, threads_started, ui_pc, env_left, ctl_vars>>

VARIABLES
    \* ---- AiChatStore fields (ai_chat_store.py:22-52) and the files under root_dir
    fs_chats,                     \* fs_chats[c]: the directory root_dir/<c>
    fs_index,                     \* the rows of root_dir/index.jsonl
    current_chat_id,              \* self.current_chat_id, NoChat for None
    manifest,                     \* self._manifest, NoManifest for None
    pending_event_lines,          \* self._pending_event_lines
    manifest_dirty,               \* self._manifest_dirty
    index_dirty,                  \* self._index_dirty
    flush_due_at,                 \* self._flush_due_at, NoDeadline for None
    scene_dirty,                  \* self._scene_dirty
    checkpoint_due_at,            \* self._checkpoint_due_at, NoDeadline for None
    index_latest,                 \* self._index_latest
    \* ---- environment of the store
    clock,                        \* the wall clock, in the seconds _now_iso() resolves
    chats_created,                \* chat ids handed out by _new_chat_id so far
    ops_left,                     \* store operations the caller still makes
    last_op,                      \* the store operation that returned last
    removed_chats                 \* chats removed by delete_chat and not opened since

store_vars == <<fs_chats, fs_index, current_chat_id, manifest, pending_event_lines,
                manifest_dirty, index_dirty, flush_due_at, scene_dirty, checkpoint_due_at,
                index_latest, clock, chats_created, ops_left, last_op, removed_chats>>

VARIABLES
    \* ---- DoomLoopDetector fields (doom_loop_detector.py:11-15)
    threshold,                    \* self.threshold
    recent,                       \* self._recent
    recent_families,              \* self._recent_families
    recent_intents,               \* self._recent_intents
    \* ---- environment of the detector
    fed,                          \* the add_call calls made since construction or clear()
    reports                       \* reports[k]: what the k-th of these calls returned

det_vars == <<threshold, recent, recent_families, recent_intents, fed, reports>>

vars == <<rt_vars, store_vars, det_vars>>

----------------------------------------------------------------------------
\* Bounds of the model.

MaxEnvEvents == 4
MaxChats == 2
MaxStoreOps == 5
MaxClock == 1
MaxListingOps == 6
MaxCheckpointOps == 5
MaxDetectorCalls == 4
MaxThreshold == 3
MaxStreamEvents == 5
MaxStreamTurns == 2
MaxToolEvents == 3
MaxBudget == 7
MaxControlEvents == 3
MaxDraftOps == 4
MaxQueueEmits == 4
MaxCapacity == 2
MaxHistoryAppends == 3
MaxRetryEvents == 5
MaxIntentCalls == 4
MaxIntentThreshold == 4
MaxLoadOps == 5
MaxCrashOps == 6
MaxResumeOps == 4
MaxResumeImports == 1

\* Program constants.
DefaultUiMaxEvents == 2000
HistoryMax == 80
ToolResultMaxChars == 4096

----------------------------------------------------------------------------
\* Texts.

Max(a, b) == IF a >= b THEN a ELSE b
Min(a, b) == IF a <= b THEN a ELSE b

IsSpace(ch) == ch = " "

RECURSIVE LStrip(_)
LStrip(s) == IF s # <<>> /\ IsSpace(Head(s)) THEN LStrip(Tail(s)) ELSE s

RECURSIVE RStrip(_)
RStrip(s) == IF s # <<>> /\ IsSpace(s[Len(s)]) THEN RStrip(SubSeq(s, 1, Len(s) - 1)) ELSE s

\* str.strip()
Strip(s) == RStrip(LStrip(s))

\* str.lower() on the characters the model uses
LowerChar(ch) ==
    CASE ch = "L" -> "l"
      [] ch = "G" -> "g"
      [] ch = "A" -> "a"
      [] ch = "H" -> "h"
      [] ch = "C" -> "c"
      [] ch = "I" -> "i"
      [] OTHER -> ch

Lower(s) == [i \in 1..Len(s) |-> LowerChar(s[i])]

\* str.startswith(prefix)
StartsWith(s, prefix) == Len(s) >= Len(prefix) /\ SubSeq(s, 1, Len(prefix)) = prefix

RECURSIVE FirstToken(_)
\* text.split(None, 1)[0] of a text without leading whitespace
FirstToken(s) ==
    IF s = <<>> \/ IsSpace(Head(s)) THEN <<>> ELSE <<Head(s)>> \o FirstToken(Tail(s))

\* no session id: None, or the empty text the code treats alike
NoSession == <<>>

\* a session id the Agent Client issues
SessionId == <<"s", "2">>

CmdZoom == <<"z", "o", "o", "m">>
CmdGetView == <<"g", "e", "t", "_", "v", "i", "e", "w">>
CmdLoad == <<"l", "o", "a", "d", " ", "1", "a", "b", "c">>

_READ_ONLY_PREFIXES ==
    { <<"g", "e", "t", "_">>,
      <<"c", "o", "u", "n", "t", "_">>,
      <<"i", "t", "e", "r", "a", "t", "e">>,
      <<"i", "n", "d", "i", "c", "a", "t", "e">>,
      <<"h", "e", "l", "p">> }

Digits == {"0", "1", "2", "3", "4", "5", "6", "7", "8", "9"}
Letters == {"a", "b", "c", "d", "e", "f", "g", "h", "i", "j", "k", "l", "m", "n", "o", "p",
            "q", "r", "s", "t", "u", "v", "w", "x", "y", "z", "A", "G", "H", "L"}

\* _RE_PDB_ID = ^[0-9][A-Za-z0-9]{3}$ ; a match cannot hold '.', '/' or '\'
MatchesPdbId(s) ==
    /\ Len(s) = 4
    /\ s[1] \in Digits
    /\ \A i \in 2..4 : s[i] \in Digits \cup Letters

\* _canonicalize_command: <<command, note>>, note = <<>> for None
_canonicalize_command(command) ==
    LET stripped == Strip(command)
        low == Lower(stripped)
        arg == Strip(SubSeq(stripped, 6, Len(stripped)))
    IN  IF StartsWith(low, <<"l", "o", "a", "d", " ">>) /\ MatchesPdbId(arg)
        THEN << <<"f", "e", "t", "c", "h", " ">> \o arg, <<"translated load -> fetch">> >>
        ELSE <<stripped, <<>> >>

\* (text and first are bound by quantifiers over one-element sets, so that each is
\* evaluated once)
_is_state_changing_command(command) ==
    \A text \in {Lower(Strip(command))} :
        IF text = <<>> THEN FALSE
        ELSE \A first \in {FirstToken(text)} :
                ~ \E p \in _READ_ONLY_PREFIXES : StartsWith(first, p)

----------------------------------------------------------------------------
\* UI events (message_types.py UiEvent) and the event queue.

NoId == <<>>

\* a tool payload: ok and command of the dict the tool functions build
ToolPayload(ok, command) == [ok |-> ok, command |-> command]

NoPayload == ToolPayload(FALSE, <<"none">>)

\* metadata["tool_result_json"]: the payload itself, or the dict {truncated, preview}
KeptPayload(payload) == [truncated |-> FALSE, preview |-> <<>>, payload |-> payload]

TruncatedPayload(preview) == [truncated |-> TRUE, preview |-> preview, payload |-> NoPayload]

\* an event without metadata["tool_result_json"]
NoResultJson == KeptPayload(NoPayload)

UiEvent(role, text) ==
    [role |-> role, text |-> text, ok |-> "none", tool_name |-> "", tool_call_id |-> NoId,
     tool_command |-> <<>>, stream_chunk |-> FALSE, tool_result_json |-> NoResultJson]

ToolResultEvent(text, ok, tool_name, tool_call_id, tool_command, result_json) ==
    [role |-> "tool_result", text |-> text, ok |-> IF ok THEN "true" ELSE "false",
     tool_name |-> tool_name, tool_call_id |-> tool_call_id, tool_command |-> tool_command,
     stream_chunk |-> FALSE, tool_result_json |-> result_json]

StreamChunkEvent(piece) ==
    [role |-> "ai", text |-> piece, ok |-> "none", tool_name |-> "", tool_call_id |-> NoId,
     tool_command |-> <<>>, stream_chunk |-> TRUE, tool_result_json |-> NoResultJson]

MsgAlreadyInProgress == <<"request already in progress">>
MsgCancelRequested == <<"cancellation requested...">>
MsgRequestCancelled == <<"request cancelled">>
MsgUnexpectedError == <<"unexpected error: ">>
MsgNoFinalAnswer == <<"I completed the loop but did not receive a final answer from the model.">>
MsgAiDisabled == <<"AI disabled. Use /ai on, or /cli to switch to command mode">>
MsgCompacted == <<"chat output compacted to keep UI responsive">>
MsgExecuted == <<"Executed: ">>
MsgExecutedSnapshot == <<"Executed: capture_viewer_snapshot">>

_HIDDEN_SYSTEM_PREFIXES == {"Validation required:", "Visual validation required now:"}

_is_internal_system_reminder(text) == text # <<>> /\ Head(text) \in _HIDDEN_SYSTEM_PREFIXES

HasCompactionNotice(text) == \E i \in 1..Len(text) : <<text[i]>> = MsgCompacted

SetMin(S) == CHOOSE x \in S : \A y \in S : x <= y

\* a choice of the oldest event whatever its role
DropOldest(q) == 1

\* drop_index() of _compact_ui_events_locked, as a 1-based position
drop_index(q) ==
    LET low == {i \in 1..Len(q) : /\ q[i].role \in {"reasoning", "system"}
                                  /\ ~HasCompactionNotice(q[i].text)}
    IN  IF low = {} THEN 1 ELSE SetMin(low)

RemoveAt(q, i) == SubSeq(q, 1, i - 1) \o SubSeq(q, i + 1, Len(q))

RECURSIVE PopWhileOver(_, _)
PopWhileOver(q, max) == IF Len(q) > max THEN PopWhileOver(RemoveAt(q, drop_index(q)), max) ELSE q

\* a compaction that appends the notice without making room for it
compact_without_room(qs, max) ==
    IF max <= 0 \/ Len(qs.q) <= max THEN qs
    ELSE IF ~qs.sent
    THEN [q |-> Append(PopWhileOver(qs.q, max), UiEvent("system", MsgCompacted)), sent |-> TRUE]
    ELSE [q |-> PopWhileOver(qs.q, max), sent |-> qs.sent]

\* _compact_ui_events_locked on the pair (queue, notice flag)
_compact_ui_events_locked(qs, max) ==
    IF max <= 0 \/ Len(qs.q) <= max THEN qs
    ELSE LET q1 == PopWhileOver(qs.q, max)
         IN  IF ~qs.sent
             THEN LET q2 == IF Len(q1) >= max THEN RemoveAt(q1, drop_index(q1)) ELSE q1
                  IN  [q |-> Append(q2, UiEvent("system", MsgCompacted)), sent |-> TRUE]
             ELSE [q |-> q1, sent |-> qs.sent]

RECURSIVE WhilePops(_, _)
\* lines 281-282: the pops of the while loop, each with the queue it was made from
WhilePops(q, max) ==
    IF Len(q) > max
    THEN <<[q |-> q, i |-> drop_index(q)]>> \o WhilePops(RemoveAt(q, drop_index(q)), max)
    ELSE <<>>

\* the pops one _compact_ui_events_locked call makes on the pair (queue, notice flag),
\* in order: those of the while loop, then the one that makes room for the notice
CompactionPops(qs, max) ==
    IF max <= 0 \/ Len(qs.q) <= max THEN <<>>
    ELSE LET q1 == PopWhileOver(qs.q, max)
         IN  WhilePops(qs.q, max) \o
             (IF ~qs.sent /\ Len(q1) >= max THEN <<[q |-> q1, i |-> drop_index(q1)]>>
              ELSE <<>>)

\* emit_ui_event on the pair (queue, notice flag)
emit_ui_event(qs, event, max) ==
    IF event.role = "system" /\ _is_internal_system_reminder(event.text) THEN qs
    ELSE _compact_ui_events_locked([q |-> Append(qs.q, event), sent |-> qs.sent], max)

RECURSIVE EmitSeq(_, _, _)
EmitSeq(qs, events, max) ==
    IF events = <<>> THEN qs ELSE EmitSeq(emit_ui_event(qs, Head(events), max), Tail(events), max)

\* the queue after the calling thread has emitted `events` in order
Emitted(events) ==
    EmitSeq([q |-> ui_events, sent |-> ui_compaction_notice_sent], events, ui_max_events)

EmitAll(events) ==
    /\ ui_events' = Emitted(events).q
    /\ ui_compaction_notice_sent' = Emitted(events).sent

----------------------------------------------------------------------------
\* Conversation history.

HistoryMessage(role, name, tool_call_id, content) ==
    [role |-> role, name |-> name, tool_call_id |-> tool_call_id, content |-> content]

_append_history(h, message) ==
    LET h2 == Append(h, message)
    IN  IF Len(h2) > HistoryMax THEN SubSeq(h2, Len(h2) - HistoryMax + 1, Len(h2)) ELSE h2

\* the threads that append to history: the agent worker and the caller (UI) thread
HistoryThreads == {"worker", "caller"}

\* what a thread inside _append_history holds: the list it loaded from self.history (the
\* list self.history still names when live, else the abandoned list), the message and
\* the slice it computed
IdleAppender == [pc |-> "idle", live |-> TRUE, list |-> <<>>, msg |-> <<>>, tmp |-> <<>>]

RECURSIVE AppendAll(_, _)
AppendAll(h, messages) ==
    IF messages = <<>> THEN h
    ELSE AppendAll(_append_history(h, Head(messages)), Tail(messages))

\* _tool_result_content: the JSON text of a tool payload, in a stylised form
_tool_result_content(payload) ==
    <<"{">> \o (IF payload.ok THEN <<"t">> ELSE <<"f">>) \o payload.command \o <<"}">>

TruncationMark == <<"... [truncated]">>

\* the content of the tool message of execute_run_command_tool (lines 724-726)
TruncatedContent(content) ==
    IF Len(content) > tool_result_max_chars
    THEN SubSeq(content, 1, tool_result_max_chars) \o TruncationMark
    ELSE content

\* a metadata payload that is cut only when it is longer than the budget by two
MetadataPayloadCutLate(payload) ==
    IF Len(_tool_result_content(payload)) <= tool_result_max_chars + 1
    THEN KeptPayload(payload)
    ELSE TruncatedPayload(SubSeq(_tool_result_content(payload), 1, tool_result_max_chars)
                              \o TruncationMark)

\* _tool_result_metadata_payload
_tool_result_metadata_payload(payload) ==
    LET serialized == _tool_result_content(payload)
    IN  IF Len(serialized) <= tool_result_max_chars
        THEN KeptPayload(payload)
        ELSE TruncatedPayload(SubSeq(serialized, 1, tool_result_max_chars) \o TruncationMark)

----------------------------------------------------------------------------
\* The environment of the runtime: the user, the host application, the Agent Client.

\* a worker thread per admitted input
Threads == 1..MaxEnvEvents

PromptZoomIn == <<"z", "o", "o", "m", " ", "i", "n">>

\* what the user types (control inputs starting with /ai or /cli are not among them)
TypedInputs == {PromptZoomIn}

\* the commands the model passes to run_pymol_command
ModelCommands == {CmdZoom, CmdGetView}

\* the text chunks the Agent Client streams
StreamPieces == {<<"a">>}

\* a host call returns a success, returns a failure, or raises
HostOutcomes == {"ok", "fail", "raise"}

\* SdkTurnResult (claude_sdk_loop.py:17-23) as run_turn returns it; `error` says whether
\* the error text is non-empty.
SdkResult(text, session, error, class) ==
    [assistant_text |-> text, session_id |-> session, error |-> error, error_class |-> class]

\* the Agent Client answers with a final text under a session id
PlainAnswer == SdkResult(<<"a">>, SessionId, FALSE, "none")

\* the other results: no final text; an error of each class the runtime tells apart; and
\* run_turn's last handler (claude_sdk_loop.py:442-444) returning str(exc) of an exception
\* without a message, an empty error text with the class sdk_error
OtherSdkResults ==
    {SdkResult(<<>>, SessionId, FALSE, "none"),
     SdkResult(<<>>, NoSession, TRUE, "resume_invalid"),
     SdkResult(<<>>, NoSession, TRUE, "cancelled"),
     SdkResult(<<>>, NoSession, TRUE, "sdk_error"),
     SdkResult(<<>>, NoSession, FALSE, "sdk_error")}

SdkResults == {PlainAnswer} \cup OtherSdkResults

ErrorText(result) == <<"sdk: ", result.error_class>>

NoResult == SdkResult(<<>>, NoSession, FALSE, "none")

NoTool == [name |-> "", id |-> NoId, command |-> <<>>]

\* the locals of _agent_worker, and a record of the turn kept for the properties:
\* calls, the run_turn invocations made so far in the turn; turn_start, the length of the
\* event queue when the turn was admitted; ended, the way the worker left its try block;
\* cancel_requested, whether request_cancel() was called while the worker was in its try
\* block and no chunk of the turn had been streamed; cancel_set, whether it was called
\* after the turn was admitted and before its worker left the try block; chunk_dropped,
\* whether _on_assistant_chunk returned at line 506 on a chunk of the turn
IdleWorker ==
    [prompt |-> <<>>, cancelled |-> FALSE, pending_validation_required |-> FALSE,
     validation_done_this_turn |-> FALSE, result |-> NoResult, tool |-> NoTool,
     tool_seq |-> 0, calls |-> <<>>, turn_start |-> 0, ended |-> "no",
     cancel_requested |-> FALSE, cancel_set |-> FALSE, chunk_dropped |-> FALSE]

----------------------------------------------------------------------------
\* The caller (UI) thread.

queue_vars == <<ui_events, ui_compaction_notice_sent>>
stream_vars == <<stream_had_output, stream_full_text>>
mode_vars == <<enabled, input_mode>>
conf_vars == <<ui_max_events, screenshot_validate_required, final_answer_enabled,
               tool_result_max_chars>>
thread_vars == <<wpc, worker, threads_started>>

\* the user, the Agent Client or the host does n of the things env_left counts
EnvSpends(n) == env_left >= n /\ env_left' = env_left - n

\* an admission test that lets every request through
NeverRejected == FALSE

\* line 449: the admission test made under self._lock
RequestRejected == busy

\* _start_agent_request, after the caller emitted pre_events
_start_agent_request(pre_events, prompt) ==
    IF RequestRejected
    THEN /\ EmitAll(pre_events \o <<UiEvent("system", MsgAlreadyInProgress)>>)
         /\ UNCHANGED <<busy, cancel_event, thread_vars>>
    ELSE LET t == threads_started + 1
         IN  /\ busy' = TRUE
             /\ cancel_event' = FALSE
             /\ EmitAll(pre_events)
             /\ threads_started' = t
             /\ wpc' = [wpc EXCEPT ![t] = "start"]
             /\ worker' = [worker EXCEPT ![t] =
                              [IdleWorker EXCEPT !.prompt = prompt,
                                                 !.turn_start = Len(Emitted(pre_events).q)]]

\* _execute_cli_command, after the caller emitted pre_events; ok: the parser's answer
_execute_cli_command(pre_events, command, ok) ==
    LET fixed == _canonicalize_command(command)[1]
        note == _canonicalize_command(command)[2]
        notes == IF note # <<>> THEN <<UiEvent("system", note)>> ELSE <<>>
        result == ToolResultEvent(MsgExecuted \o fixed, ok, "run_pymol_command",
                                  <<"cli", fixed>>, fixed,
                                  _tool_result_metadata_payload(ToolPayload(ok, fixed)))
    IN  /\ history' = _append_history(history,
                          HistoryMessage("user", "", NoId, <<"CLI command: ">> \o fixed))
        /\ cli_commands' = Append(cli_commands, fixed)
        /\ EmitAll(pre_events \o notes \o <<result>>)

\* handle_typed_input for an input that starts with neither /cli nor /ai
HandleTypedInput(text) ==
    /\ ui_pc = "idle"
    /\ EnvSpends(1)
    /\ LET stripped == Strip(text)
           user == UiEvent("user", stripped)
       IN  /\ ~StartsWith(stripped, <<"/", "c", "l", "i">>)
           /\ ~StartsWith(stripped, <<"/", "a", "i">>)
           /\ IF stripped = <<>>
              THEN UNCHANGED <<busy, cancel_event, thread_vars, queue_vars, history,
                               cli_commands>>
              ELSE IF input_mode = "cli"
              THEN /\ \E ok \in BOOLEAN : _execute_cli_command(<<user>>, text, ok)
                   /\ UNCHANGED <<busy, cancel_event, thread_vars>>
              ELSE IF ~enabled
              THEN /\ EmitAll(<<user, UiEvent("error", MsgAiDisabled)>>)
                   /\ UNCHANGED <<busy, cancel_event, thread_vars, history, cli_commands>>
              ELSE /\ _start_agent_request(<<user>>, text)
                   /\ UNCHANGED <<history, cli_commands>>
    /\ UNCHANGED <<mode_vars, conf_vars, stream_vars, sdk_session_id, ui_pc, store_vars,
                   det_vars, api_key_set, disable_flag, drained, emit_log,
                   appender>>

\* the events emitted since worker t was admitted
TurnEvents(t) == SubSeq(ui_events, worker[t].turn_start + 1, Len(ui_events))

\* worker t is inside the try block of _agent_worker (lines 645-871)
InTryBlock(t) == wpc[t] \notin {"unborn", "finally", "clear_cancel", "done"}

StreamedChunk(t) == \E i \in 1..Len(TurnEvents(t)) : TurnEvents(t)[i].stream_chunk

\* request_cancel, line 159
RequestCancelSet ==
    /\ ui_pc = "idle"
    /\ EnvSpends(1)
    /\ cancel_event' = TRUE
    /\ ui_pc' = "request_cancel"
    /\ worker' = [t \in Threads |->
                     IF InTryBlock(t)
                     THEN [worker[t] EXCEPT !.cancel_requested = @ \/ ~StreamedChunk(t),
                                            !.cancel_set = TRUE]
                     ELSE worker[t]]
    /\ UNCHANGED <<mode_vars, conf_vars, stream_vars, queue_vars, sdk_session_id, history,
                   busy, wpc, threads_started, store_vars, det_vars, ctl_vars>>

\* request_cancel, lines 160-165
RequestCancelNotify ==
    /\ ui_pc = "request_cancel"
    /\ ui_pc' = "idle"
    /\ EmitAll(IF busy THEN <<UiEvent("system", MsgCancelRequested)>> ELSE <<>>)
    /\ UNCHANGED <<mode_vars, conf_vars, stream_vars, sdk_session_id, history, busy,
                   cancel_event, thread_vars, env_left,
                   store_vars, det_vars, ctl_vars>>

----------------------------------------------------------------------------
\* The caller (UI) thread: control inputs, the session state, the event queue.

MsgCliEnabled == <<"CLI mode enabled. Commands are executed directly">>
MsgAiModeEnabled == <<"AI mode enabled">>
MsgCliHelp == <<"/cli | /cli off | /cli <pymol command>">>
MsgNoApiKey ==
    <<"OPENROUTER_API_KEY (or ANTHROPIC_AUTH_TOKEN) is not set. Export it and retry /ai on">>
MsgDisableFlagSet == <<"PYMOL_AI_DISABLE=1 is set. Unset it to enable AI">>
MsgAiEnabled == <<"AI enabled">>
MsgAiOff == <<"AI disabled">>
MsgAiHelp ==
    <<"/ai (same as /ai on) | /ai on | /ai off | /ai model <id> | /ai clear | /ai help">>
MsgModelUsage == <<"usage: /ai model <openrouter_model_id>">>
MsgModelSet == <<"model set to ">>
MsgUnknownAiCommand == <<"unknown /ai command. Try /ai help">>
MsgSessionCleared == <<"session memory cleared">>

PrefixCli == <<"/", "c", "l", "i">>
PrefixAi == <<"/", "a", "i">>

RECURSIVE Tokens(_)
\* str.split()
Tokens(s) ==
    LET t == LStrip(s)
    IN  IF t = <<>> THEN <<>>
        ELSE <<FirstToken(t)>> \o Tokens(SubSeq(t, Len(FirstToken(t)) + 1, Len(t)))

\* _handle_cli_control(command) after the caller emitted pre_events; handle_typed_input
\* passes the input as typed, leading whitespace included
_handle_cli_control(pre_events, command) ==
    LET rest == Strip(SubSeq(command, Len(PrefixCli) + 1, Len(command)))
    IN  IF rest = <<>> \/ rest = <<"o", "n">>
        THEN /\ input_mode' = "cli"
             /\ EmitAll(pre_events \o <<UiEvent("system", MsgCliEnabled)>>)
             /\ UNCHANGED <<enabled, history, cli_commands>>
        ELSE IF rest = <<"o", "f", "f">>
        THEN /\ input_mode' = "ai"
             /\ EmitAll(pre_events \o <<UiEvent("system", MsgAiModeEnabled)>>)
             /\ UNCHANGED <<enabled, history, cli_commands>>
        ELSE IF rest = <<"h", "e", "l", "p">>
        THEN /\ EmitAll(pre_events \o <<UiEvent("system", MsgCliHelp)>>)
             /\ UNCHANGED <<mode_vars, history, cli_commands>>
        ELSE /\ \E ok \in BOOLEAN : _execute_cli_command(pre_events, rest, ok)
             /\ UNCHANGED mode_vars

\* an _enable_ai that does not look at the credential
EnableFailsOpen == "no"

\* lines 383 and 392 of _enable_ai: why AI cannot be enabled, "no" when it can
EnableRefusal ==
    IF ~api_key_set THEN "key" ELSE IF disable_flag THEN "flag" ELSE "no"

\* _enable_ai after the caller emitted pre_events
_enable_ai(pre_events) ==
    IF EnableRefusal = "key"
    THEN /\ enabled' = FALSE
         /\ EmitAll(pre_events \o <<UiEvent("error", MsgNoApiKey)>>)
         /\ UNCHANGED input_mode
    ELSE IF EnableRefusal = "flag"
    THEN /\ enabled' = FALSE
         /\ EmitAll(pre_events \o <<UiEvent("error", MsgDisableFlagSet)>>)
         /\ UNCHANGED input_mode
    ELSE /\ enabled' = TRUE
         /\ input_mode' = "ai"
         /\ EmitAll(pre_events \o <<UiEvent("system", MsgAiEnabled)>>)

\* clear_session(emit_notice) after the caller emitted pre_events
clear_session(pre_events, emit_notice) ==
    /\ history' = <<>>
    /\ stream_full_text' = <<>>
    /\ sdk_session_id' = NoSession
    /\ EmitAll(pre_events \o
               (IF emit_notice THEN <<UiEvent("system", MsgSessionCleared)>> ELSE <<>>))

\* _handle_ai_control(command) after the caller emitted pre_events (self.model is not
\* among the variables)
_handle_ai_control(pre_events, command) ==
    LET parts == Tokens(command)
        action == Lower(parts[2])
    IN  IF Len(parts) = 1
        THEN /\ _enable_ai(pre_events)
             /\ UNCHANGED <<history, stream_full_text, sdk_session_id>>
        ELSE IF action = <<"h", "e", "l", "p">>
        THEN /\ EmitAll(pre_events \o <<UiEvent("system", MsgAiHelp)>>)
             /\ UNCHANGED <<mode_vars, history, stream_full_text, sdk_session_id>>
        ELSE IF action = <<"o", "n">>
        THEN /\ _enable_ai(pre_events)
             /\ UNCHANGED <<history, stream_full_text, sdk_session_id>>
        ELSE IF action = <<"o", "f", "f">>
        THEN /\ enabled' = FALSE
             /\ EmitAll(pre_events \o <<UiEvent("system", MsgAiOff)>>)
             /\ UNCHANGED <<input_mode, history, stream_full_text, sdk_session_id>>
        ELSE IF action = <<"m", "o", "d", "e", "l">>
        THEN /\ EmitAll(pre_events \o
                        <<IF Len(parts) < 3 THEN UiEvent("error", MsgModelUsage)
                          ELSE UiEvent("system", MsgModelSet \o parts[3])>>)
             /\ UNCHANGED <<mode_vars, history, stream_full_text, sdk_session_id>>
        ELSE IF action = <<"c", "l", "e", "a", "r">>
        THEN /\ clear_session(pre_events, TRUE)
             /\ UNCHANGED mode_vars
        ELSE /\ EmitAll(pre_events \o <<UiEvent("error", MsgUnknownAiCommand)>>)
             /\ UNCHANGED <<mode_vars, history, stream_full_text, sdk_session_id>>

\* handle_typed_input for an input that starts with /cli or /ai (lines 328-334)
HandleControlInput(text) ==
    /\ ui_pc = "idle"
    /\ EnvSpends(1)
    /\ LET stripped == Strip(text)
           user == UiEvent("user", stripped)
       IN  IF StartsWith(stripped, PrefixCli)
           THEN /\ _handle_cli_control(<<user>>, text)
                /\ UNCHANGED <<stream_full_text, sdk_session_id>>
           ELSE /\ StartsWith(stripped, PrefixAi)
                /\ _handle_ai_control(<<user>>, stripped)
                /\ UNCHANGED cli_commands
    /\ UNCHANGED <<conf_vars, stream_had_output, busy, cancel_event, thread_vars, ui_pc,
                   store_vars, det_vars, api_key_set, disable_flag, drained, emit_log,
                   appender>>

\* ensure_ai_default_mode(emit_notice)
EnsureAiDefaultMode(emit_notice) ==
    /\ ui_pc = "idle"
    /\ EnvSpends(1)
    /\ input_mode' = "ai"
    /\ enabled' = (api_key_set /\ ~disable_flag)
    /\ EmitAll(IF emit_notice /\ api_key_set /\ ~disable_flag
               THEN <<UiEvent("system", MsgAiEnabled)>> ELSE <<>>)
    /\ UNCHANGED <<conf_vars, stream_vars, sdk_session_id, history, busy, cancel_event,
                   thread_vars, ui_pc, store_vars, det_vars, ctl_vars>>

\* clear_session(emit_notice) called by the application
ClearSession(emit_notice) ==
    /\ ui_pc = "idle"
    /\ EnvSpends(1)
    /\ clear_session(<<>>, emit_notice)
    /\ UNCHANGED <<mode_vars, conf_vars, stream_had_output, busy, cancel_event, thread_vars,
                   ui_pc, store_vars, det_vars, ctl_vars>>

\* history[-n:]
LastN(h, n) == IF Len(h) > n THEN SubSeq(h, Len(h) - n + 1, Len(h)) ELSE h

\* the fields of the runtime that export_session_state reads and import_session_state
\* writes
SessionOf(mode, h, session, on) ==
    [input_mode |-> mode, history |-> h, sdk_session_id |-> session, enabled |-> on]

RuntimeSession == SessionOf(input_mode, history, sdk_session_id, enabled)

\* the session fields of a runtime just constructed (lines 74-110)
FreshSession == SessionOf("ai", <<>>, NoSession, api_key_set /\ ~disable_flag)

\* a session state dict: input_mode and sdk_session_id are texts (<<>> when missing),
\* history is a list or something else, model_info may hold "enabled"
SessionPayload(mode, is_list, h, session, has_enabled, on) ==
    [input_mode |-> mode, history_is_list |-> is_list, history |-> h,
     sdk_session_id |-> session, has_enabled |-> has_enabled, enabled |-> on]

\* export_session_state
export_session_state(rt) ==
    SessionPayload(IF rt.input_mode = "cli" THEN <<"c", "l", "i">> ELSE <<"a", "i">>,
                   TRUE, LastN(rt.history, HistoryMax), rt.sdk_session_id, TRUE, rt.enabled)

\* an import that forgets the resumption token
import_forgets_token(rt, payload, apply_model) ==
    SessionOf(IF Lower(payload.input_mode) = <<"c", "l", "i">> THEN "cli" ELSE "ai",
              IF payload.history_is_list THEN LastN(payload.history, HistoryMax) ELSE <<>>,
              NoSession,
              IF apply_model /\ payload.has_enabled THEN payload.enabled ELSE rt.enabled)

\* import_session_state(state, apply_model) on the session fields rt
import_session_state(rt, payload, apply_model) ==
    SessionOf(IF Lower(payload.input_mode) = <<"c", "l", "i">> THEN "cli" ELSE "ai",
              IF payload.history_is_list THEN LastN(payload.history, HistoryMax) ELSE <<>>,
              Strip(payload.sdk_session_id),
              IF apply_model /\ payload.has_enabled THEN payload.enabled ELSE rt.enabled)

\* a message of a stored history, told apart by its number
StoredMessage(i) == HistoryMessage("user", "", NoId, <<"m", ToString(i)>>)

\* a stored history one message longer than the runtime keeps
LongHistory == [i \in 1..(HistoryMax + 1) |-> StoredMessage(i)]

\* the session states the application imports: none; one written by another version, with
\* an upper-case mode, a padded token and a long history; one whose history is no list
ImportPayloads ==
    {SessionPayload(<<>>, TRUE, <<>>, <<>>, FALSE, FALSE),
     SessionPayload(<<"C", "L", "I">>, TRUE, LongHistory, <<" ", "s", "1", " ">>, TRUE, FALSE),
     SessionPayload(<<"a", "i">>, FALSE, <<>>, <<"s", "1">>, TRUE, TRUE)}

\* import_session_state(payload, apply_model) called by the application
ImportSessionState(payload, apply_model) ==
    /\ ui_pc = "idle"
    /\ EnvSpends(1)
    /\ LET rt == import_session_state(RuntimeSession, payload, apply_model)
       IN  /\ input_mode' = rt.input_mode
           /\ history' = rt.history
           /\ sdk_session_id' = rt.sdk_session_id
           /\ enabled' = rt.enabled
    /\ stream_full_text' = <<>>
    /\ UNCHANGED <<conf_vars, stream_had_output, queue_vars, busy, cancel_event, thread_vars,
                   ui_pc, store_vars, det_vars, ctl_vars>>

\* a drain that returns the newest events first
drain_newest_first(q, has_limit, limit) ==
    LET n == IF has_limit THEN Min(Max(0, limit), Len(q)) ELSE Len(q)
    IN  [out |-> SubSeq(q, Len(q) - n + 1, Len(q)), rest |-> SubSeq(q, 1, Len(q) - n)]

\* drain_ui_events(limit) on the queue q: what it returns and what it leaves queued
drain_ui_events(q, has_limit, limit) ==
    LET n == IF has_limit THEN Min(Max(0, limit), Len(q)) ELSE Len(q)
    IN  [out |-> SubSeq(q, 1, n), rest |-> SubSeq(q, n + 1, Len(q))]

\* the limits the UI passes to drain_ui_events
DrainLimits == {-1, 0, 1, 2}

\* drain_ui_events(limit), has_limit false for limit=None; it runs under _event_lock
DrainUiEvents(has_limit, limit) ==
    /\ LET d == drain_ui_events(ui_events, has_limit, limit)
       IN  /\ ui_events' = d.rest
           /\ drained' = drained \o d.out
           /\ ui_compaction_notice_sent' =
                  IF d.rest = <<>> THEN FALSE ELSE ui_compaction_notice_sent
    /\ UNCHANGED <<mode_vars, conf_vars, stream_vars, sdk_session_id, history, busy,
                   cancel_event, thread_vars, ui_pc, env_left, store_vars, det_vars,
                   api_key_set, disable_flag, cli_commands, emit_log, appender>>

\* emit_ui_event(event) called by a thread of the application; it runs under _event_lock
EmitUiEvent(event) ==
    /\ EnvSpends(1)
    /\ EmitAll(<<event>>)
    /\ emit_log' = Append(emit_log, event)
    /\ UNCHANGED <<mode_vars, conf_vars, stream_vars, sdk_session_id, history, busy,
                   cancel_event, thread_vars, ui_pc, store_vars, det_vars,
                   api_key_set, disable_flag, cli_commands, drained, appender>>

\* _append_history (lines 465-468) instruction by instruction, for threads that run it
\* without a lock. self.history names a list object; a thread that loaded the name holds
\* that object, also after another thread has stored a new list under the name.

\* the list thread t holds
HeldList(t) == IF appender[t].live THEN history ELSE appender[t].list

\* self.history is made to name a new list: the threads that hold the old one keep it
Abandoned(old, storing) ==
    [t \in HistoryThreads |->
        IF t # storing /\ appender[t].pc # "idle" /\ appender[t].live
        THEN [appender[t] EXCEPT !.live = FALSE, !.list = old]
        ELSE appender[t]]

AppendFrame ==
    UNCHANGED <<mode_vars, conf_vars, stream_vars, queue_vars, sdk_session_id, busy,
                cancel_event, thread_vars, ui_pc, store_vars, det_vars, api_key_set,
                disable_flag, cli_commands, drained, emit_log>>

\* thread t calls _append_history(message) and loads self.history (line 466)
AppendBegin(t, message) ==
    /\ appender[t].pc = "idle"
    /\ EnvSpends(1)
    /\ appender' = [appender EXCEPT ![t] = [IdleAppender EXCEPT !.pc = "append",
                                                                !.msg = message]]
    /\ UNCHANGED history
    /\ AppendFrame

\* line 466: list.append on the list the thread holds
AppendCall(t) ==
    /\ appender[t].pc = "append"
    /\ IF appender[t].live
       THEN /\ history' = Append(history, appender[t].msg)
            /\ appender' = [appender EXCEPT ![t].pc = "load_len"]
       ELSE /\ appender' = [appender EXCEPT ![t].pc = "load_len",
                                            ![t].list = Append(@, appender[t].msg)]
            /\ UNCHANGED history
    /\ UNCHANGED env_left
    /\ AppendFrame

\* lines 467 and 468: self.history is loaded for len() and for the slice
AppendLoad(t) ==
    /\ appender[t].pc \in {"load_len", "load_slice"}
    /\ appender' = [appender EXCEPT
                       ![t].pc = IF appender[t].pc = "load_len" THEN "test" ELSE "slice",
                       ![t].live = TRUE,
                       ![t].list = <<>>]
    /\ UNCHANGED <<history, env_left>>
    /\ AppendFrame

\* line 467: len(...) > 80
AppendTest(t) ==
    /\ appender[t].pc = "test"
    /\ appender' = [appender EXCEPT
                       ![t] = IF Len(HeldList(t)) > HistoryMax
                              THEN [@ EXCEPT !.pc = "load_slice"]
                              ELSE IdleAppender]
    /\ UNCHANGED <<history, env_left>>
    /\ AppendFrame

\* line 468: the slice [-80:] of the list the thread holds
AppendSlice(t) ==
    /\ appender[t].pc = "slice"
    /\ appender' = [appender EXCEPT ![t].pc = "store",
                                    ![t].tmp = LastN(HeldList(t), HistoryMax)]
    /\ UNCHANGED <<history, env_left>>
    /\ AppendFrame

\* line 468: the slice is stored under self.history
AppendStore(t) ==
    /\ appender[t].pc = "store"
    /\ history' = appender[t].tmp
    /\ appender' = [Abandoned(history, t) EXCEPT ![t] = IdleAppender]
    /\ UNCHANGED env_left
    /\ AppendFrame

\* the process environment changes: a credential is stored or removed, the kill switch
\* is set or unset
EnvironmentChanges(key, flag) ==
    /\ EnvSpends(1)
    /\ api_key_set' = key
    /\ disable_flag' = flag
    /\ UNCHANGED <<mode_vars, conf_vars, stream_vars, queue_vars, sdk_session_id, history,
                   busy, cancel_event, thread_vars, ui_pc, store_vars, det_vars,
                   cli_commands, drained, emit_log, appender>>

----------------------------------------------------------------------------
\* A worker thread: _agent_worker (lines 630-879).

\* the event check_cancel() emits when it finds the flag set (lines 636-643)
CheckCancelEvents(w) ==
    IF cancel_event /\ ~w.cancelled THEN <<UiEvent("system", MsgRequestCancelled)>> ELSE <<>>

\* an except clause that only logs the exception
ExceptionOnlyLogged == <<>>

\* the except clause (lines 872-874)
UnexpectedErrorEvents == <<UiEvent("error", MsgUnexpectedError)>>

SdkCall(resume, with_context) ==
    [resume_session_id |-> resume, include_history_context |-> with_context]

\* lines 645-653 and 811-819: the first cancellation check, the user message, the turn
\* prompt (the host's state summary may raise) and the call of run_turn
AgentWorkerStart(t) ==
    /\ wpc[t] = "start"
    /\ IF cancel_event
       THEN /\ EmitAll(CheckCancelEvents(worker[t]))
            /\ worker' = [worker EXCEPT ![t].cancelled = TRUE, ![t].ended = "cancelled"]
            /\ wpc' = [wpc EXCEPT ![t] = "finally"]
            /\ UNCHANGED <<history, stream_vars, env_left>>
       ELSE /\ history' = _append_history(history,
                              HistoryMessage("user", "", NoId, worker[t].prompt))
            /\ stream_had_output' = FALSE
            /\ stream_full_text' = <<>>
            /\ \E host \in {"ok", "raise"} :
                  IF host = "raise"
                  THEN /\ EnvSpends(1)
                       /\ EmitAll(UnexpectedErrorEvents)
                       /\ wpc' = [wpc EXCEPT ![t] = "finally"]
                       /\ worker' = [worker EXCEPT ![t].ended = "exception"]
                  ELSE /\ EnvSpends(0)
                       /\ worker' = [worker EXCEPT
                                        ![t].calls = Append(@, SdkCall(sdk_session_id, FALSE)),
                                        ![t].tool_seq = 0]
                       /\ wpc' = [wpc EXCEPT ![t] = "sdk"]
                       /\ UNCHANGED queue_vars
    /\ UNCHANGED <<mode_vars, conf_vars, sdk_session_id, busy, cancel_event, threads_started,
                   ui_pc, store_vars, det_vars, ctl_vars>>

\* _on_assistant_chunk (lines 504-519), called by the Agent Client
SdkTextChunk(t, piece) ==
    /\ wpc[t] = "sdk"
    /\ EnvSpends(1)
    /\ IF cancel_event \/ piece = <<>>
       THEN /\ worker' = [worker EXCEPT ![t].chunk_dropped = @ \/ cancel_event]
            /\ UNCHANGED <<stream_vars, queue_vars>>
       ELSE /\ stream_had_output' = TRUE
            /\ stream_full_text' = stream_full_text \o piece
            /\ EmitAll(<<StreamChunkEvent(piece)>>)
            /\ UNCHANGED worker
    /\ UNCHANGED <<mode_vars, conf_vars, sdk_session_id, history, busy, cancel_event,
                   wpc, threads_started, ui_pc, store_vars, det_vars, ctl_vars>>

\* the Agent Client calls a tool (claude_sdk_loop.py:209-235): the callback runs up to the
\* host call (lines 682-689 for run_pymol_command, 743-745 for capture_viewer_snapshot)
SdkToolCall(t, name, command) ==
    /\ wpc[t] = "sdk"
    /\ EnvSpends(1)
    /\ LET id == <<name, worker[t].tool_seq + 1>>
           fixed == _canonicalize_command(command)[1]
           note == _canonicalize_command(command)[2]
       IN  IF name = "run_pymol_command"
           THEN /\ worker' = [worker EXCEPT
                                 ![t].tool = [name |-> name, id |-> id, command |-> fixed],
                                 ![t].tool_seq = @ + 1]
                /\ EmitAll(IF note # <<>> THEN <<UiEvent("system", note)>> ELSE <<>>)
           ELSE /\ worker' = [worker EXCEPT
                                 ![t].tool = [name |-> name, id |-> id, command |-> <<>>],
                                 ![t].tool_seq = @ + 1]
                /\ UNCHANGED queue_vars
    /\ wpc' = [wpc EXCEPT ![t] = "tool"]
    /\ UNCHANGED <<mode_vars, conf_vars, stream_vars, sdk_session_id, history, busy,
                   cancel_event, threads_started, ui_pc, store_vars, det_vars, ctl_vars>>

\* execute_run_command_tool after the host call returned (lines 701-739)
RunCommandEvents(tool, ok) ==
    <<ToolResultEvent(MsgExecuted \o tool.command, ok, "run_pymol_command", tool.id,
                      tool.command, _tool_result_metadata_payload(ToolPayload(ok, tool.command)))>>

RunCommandMessages(tool, ok) ==
    <<HistoryMessage("tool", "run_pymol_command", tool.id,
          TruncatedContent(_tool_result_content(ToolPayload(ok, tool.command))))>>

\* line 736
MarksValidationPending(tool) == _is_state_changing_command(tool.command)

\* execute_snapshot_tool after the capture returned (lines 756-792)
SnapshotEvents(tool, ok) ==
    <<ToolResultEvent(MsgExecutedSnapshot, ok, "capture_viewer_snapshot", tool.id, <<>>,
                      _tool_result_metadata_payload(ToolPayload(ok, <<>>)))>>

SnapshotMessages(tool, ok) ==
    <<HistoryMessage("tool", "capture_viewer_snapshot", tool.id,
          _tool_result_content(ToolPayload(ok, <<>>)))>>

\* the host call of a tool the Agent Client called returns or raises; an exception leaves
\* the callback before it has any effect and is the Agent Client's to handle
ToolReturn(t, outcome) ==
    /\ wpc[t] = "tool"
    /\ EnvSpends(IF outcome = "ok" THEN 0 ELSE 1)
    /\ LET w == worker[t]
           ok == outcome = "ok"
       IN  IF outcome = "raise"
           THEN /\ worker' = [worker EXCEPT ![t].tool = NoTool]
                /\ UNCHANGED <<queue_vars, history>>
           ELSE IF w.tool.name = "run_pymol_command"
           THEN /\ EmitAll(RunCommandEvents(w.tool, ok))
                /\ history' = AppendAll(history, RunCommandMessages(w.tool, ok))
                /\ worker' = [worker EXCEPT
                                 ![t].tool = NoTool,
                                 ![t].pending_validation_required =
                                     IF MarksValidationPending(w.tool) THEN TRUE ELSE @]
           ELSE /\ EmitAll(SnapshotEvents(w.tool, ok))
                /\ history' = AppendAll(history, SnapshotMessages(w.tool, ok))
                /\ worker' = [worker EXCEPT
                                 ![t].tool = NoTool,
                                 ![t].validation_done_this_turn = TRUE,
                                 ![t].pending_validation_required = FALSE]
    /\ wpc' = [wpc EXCEPT ![t] = "sdk"]
    /\ UNCHANGED <<mode_vars, conf_vars, stream_vars, sdk_session_id, busy, cancel_event,
                   threads_started, ui_pc, store_vars, det_vars, ctl_vars>>

\* run_turn returns (claude_sdk_loop.py:436-444)
SdkReturn(t, result) ==
    /\ wpc[t] = "sdk"
    /\ EnvSpends(IF result = PlainAnswer THEN 0 ELSE 1)
    /\ worker' = [worker EXCEPT ![t].result = result]
    /\ wpc' = [wpc EXCEPT ![t] = "returned"]
    /\ UNCHANGED <<mode_vars, conf_vars, stream_vars, queue_vars, sdk_session_id, history,
                   busy, cancel_event, threads_started, ui_pc, store_vars, det_vars,
                   ctl_vars>>

\* a retry condition that does not ask for a cached token
RetriesWithoutToken(w) == Len(w.calls) = 1 /\ w.result.error_class = "resume_invalid"

\* lines 821-823: the result of the turn's first run_turn asks for the retry
WantsRetry(w) ==
    /\ Len(w.calls) = 1
    /\ w.result.error_class = "resume_invalid"
    /\ sdk_session_id # NoSession

\* line 831: check_cancel() before the result is interpreted
CheckBeforeInterpret(t) ==
    IF cancel_event
    THEN /\ EmitAll(CheckCancelEvents(worker[t]))
         /\ worker' = [worker EXCEPT ![t].cancelled = TRUE, ![t].ended = "cancelled"]
         /\ wpc' = [wpc EXCEPT ![t] = "finally"]
    ELSE /\ wpc' = [wpc EXCEPT ![t] = "post"]
         /\ UNCHANGED <<worker, queue_vars>>

\* lines 821-831: the retry after resume_invalid; a result that asks for no retry goes on
\* to line 831 in the same step, a retry refused by check_cancel() (line 824) reads the
\* flag again at line 831 in a step of its own
AfterSdkTurn(t) ==
    /\ wpc[t] = "returned"
    /\ IF WantsRetry(worker[t])
       THEN IF cancel_event
            THEN /\ EmitAll(CheckCancelEvents(worker[t]))
                 /\ worker' = [worker EXCEPT ![t].cancelled = TRUE]
                 /\ wpc' = [wpc EXCEPT ![t] = "retry_refused"]
                 /\ UNCHANGED <<sdk_session_id, env_left>>
            ELSE /\ sdk_session_id' = NoSession
                 /\ \E host \in {"ok", "raise"} :
                       IF host = "raise"
                       THEN /\ EnvSpends(1)
                            /\ EmitAll(UnexpectedErrorEvents)
                            /\ wpc' = [wpc EXCEPT ![t] = "finally"]
                            /\ worker' = [worker EXCEPT ![t].ended = "exception"]
                       ELSE /\ EnvSpends(0)
                            /\ worker' = [worker EXCEPT
                                             ![t].calls = Append(@, SdkCall(NoSession, TRUE)),
                                             ![t].tool_seq = 0]
                            /\ wpc' = [wpc EXCEPT ![t] = "sdk"]
                            /\ UNCHANGED queue_vars
       ELSE /\ UNCHANGED <<sdk_session_id, env_left>>
            /\ CheckBeforeInterpret(t)
    /\ UNCHANGED <<mode_vars, conf_vars, stream_vars, history, busy, cancel_event,
                   threads_started, ui_pc, store_vars, det_vars, ctl_vars>>

\* line 831, after check_cancel() refused the retry at line 824
AfterRetryRefused(t) ==
    /\ wpc[t] = "retry_refused"
    /\ CheckBeforeInterpret(t)
    /\ UNCHANGED <<mode_vars, conf_vars, stream_vars, sdk_session_id, history, busy,
                   cancel_event, threads_started, ui_pc, env_left,
                   store_vars, det_vars, ctl_vars>>

\* a runtime that never synthesizes the validation call
NeverValidates(w) == FALSE

\* line 851
NeedsAutoValidation(w) ==
    /\ screenshot_validate_required
    /\ w.pending_validation_required
    /\ ~w.validation_done_this_turn

\* lines 854-871, the events
AnswerEvents(w) ==
    LET assistant_text == Strip(w.result.assistant_text)
    IN  IF assistant_text # <<>>
        THEN IF ~stream_had_output THEN <<UiEvent("ai", assistant_text)>> ELSE <<>>
        ELSE IF stream_had_output /\ Strip(stream_full_text) # <<>> THEN <<>>
        ELSE IF final_answer_enabled THEN <<UiEvent("error", MsgNoFinalAnswer)>>
        ELSE <<>>

\* lines 854-871, the history messages
AnswerMessages(w) ==
    LET assistant_text == Strip(w.result.assistant_text)
    IN  IF assistant_text # <<>>
        THEN <<HistoryMessage("assistant", "", NoId, assistant_text)>>
        ELSE IF stream_had_output /\ Strip(stream_full_text) # <<>>
        THEN <<HistoryMessage("assistant", "", NoId, Strip(stream_full_text))>>
        ELSE <<>>

AutoSnapshotTool ==
    [name |-> "capture_viewer_snapshot", id |-> <<"auto_capture_viewer_snapshot", 1>>,
     command |-> <<>>]

\* lines 834-871: the result is interpreted; the automatic validation call, when one is
\* due, is started here and AutoToolReturn completes the turn
InterpretResult(t) ==
    /\ wpc[t] = "post"
    /\ LET w == worker[t]
           r == w.result
       IN  /\ sdk_session_id' = IF r.session_id # NoSession THEN r.session_id
                                 ELSE sdk_session_id
           /\ IF r.error
              THEN IF r.error_class = "cancelled"
                   THEN /\ EmitAll(CheckCancelEvents(w))
                        /\ worker' = [worker EXCEPT ![t].cancelled = @ \/ cancel_event,
                                                    ![t].ended = "cancelled"]
                        /\ wpc' = [wpc EXCEPT ![t] = "finally"]
                        /\ UNCHANGED history
                   ELSE /\ EmitAll(<<UiEvent("error", ErrorText(r))>>)
                        /\ wpc' = [wpc EXCEPT ![t] = "finally"]
                        /\ worker' = [worker EXCEPT ![t].ended = "client_error"]
                        /\ UNCHANGED history
              ELSE IF NeedsAutoValidation(w)
              THEN /\ worker' = [worker EXCEPT ![t].tool = AutoSnapshotTool]
                   /\ wpc' = [wpc EXCEPT ![t] = "auto_tool"]
                   /\ UNCHANGED <<queue_vars, history>>
              ELSE /\ EmitAll(AnswerEvents(w))
                   /\ history' = AppendAll(history, AnswerMessages(w))
                   /\ wpc' = [wpc EXCEPT ![t] = "finally"]
                   /\ worker' = [worker EXCEPT ![t].ended = "success"]
    /\ UNCHANGED <<mode_vars, conf_vars, stream_vars, busy, cancel_event, threads_started,
                   ui_pc, env_left, store_vars, det_vars, ctl_vars>>

\* line 852 returns or raises, then lines 854-871
AutoToolReturn(t, outcome) ==
    /\ wpc[t] = "auto_tool"
    /\ EnvSpends(IF outcome = "ok" THEN 0 ELSE 1)
    /\ LET w == worker[t]
           ok == outcome = "ok"
       IN  IF outcome = "raise"
           THEN /\ EmitAll(UnexpectedErrorEvents)
                /\ worker' = [worker EXCEPT ![t].tool = NoTool, ![t].ended = "exception"]
                /\ UNCHANGED history
           ELSE /\ EmitAll(SnapshotEvents(w.tool, ok) \o AnswerEvents(w))
                /\ history' = AppendAll(history, SnapshotMessages(w.tool, ok) \o AnswerMessages(w))
                /\ worker' = [worker EXCEPT
                                 ![t].tool = NoTool,
                                 ![t].validation_done_this_turn = TRUE,
                                 ![t].pending_validation_required = FALSE,
                                 ![t].ended = "success"]
    /\ wpc' = [wpc EXCEPT ![t] = "finally"]
    /\ UNCHANGED <<mode_vars, conf_vars, stream_vars, sdk_session_id, busy, cancel_event,
                   threads_started, ui_pc, store_vars, det_vars, ctl_vars>>

\* the release of _busy placed at the end of the try block instead: an exception skips it
ReleaseSkippedByException(t) ==
    /\ wpc[t] = "finally"
    /\ busy' = (busy /\ worker[t].ended = "exception")
    /\ wpc' = [wpc EXCEPT ![t] = "clear_cancel"]
    /\ UNCHANGED <<mode_vars, conf_vars, stream_vars, queue_vars, sdk_session_id, history,
                   cancel_event, worker, threads_started, ui_pc, env_left, store_vars,
                   det_vars, ctl_vars>>

\* lines 875-877: the finally block releases _busy under the lock
ReleaseBusy(t) ==
    /\ wpc[t] = "finally"
    /\ busy' = FALSE
    /\ wpc' = [wpc EXCEPT ![t] = "clear_cancel"]
    /\ UNCHANGED <<mode_vars, conf_vars, stream_vars, queue_vars, sdk_session_id, history,
                   cancel_event, worker, threads_started, ui_pc, env_left, store_vars,
                   det_vars, ctl_vars>>

\* line 878: the finally block clears the cancel flag; the thread then ends
ClearCancel(t) ==
    /\ wpc[t] = "clear_cancel"
    /\ cancel_event' = FALSE
    /\ wpc' = [wpc EXCEPT ![t] = "done"]
    /\ UNCHANGED <<mode_vars, conf_vars, stream_vars, queue_vars, sdk_session_id, history,
                   busy, worker, threads_started, ui_pc, env_left,
                   store_vars, det_vars, ctl_vars>>

----------------------------------------------------------------------------
\* The chat store: AiChatStore (ai_chat_store.py).

NoChat == 0
NoDeadline == -1
NoManifest == [chat_id |-> NoChat]

\* flush_delay_sec, in ticks of the clock
FlushDelay == 1
\* checkpoint_delay_sec, in ticks of the clock
CheckpointDelay == 1
\* save_status.last_pse_error is None
NoError == <<>>
MsgUnknownError == <<"unknown error">>

SlugMaxLen == 36
TitleSlugMaxLen == 28
FirstLineMaxLen == 160

\* the state of one store object and of the files under its root directory
StoreState ==
    [fs_chats |-> fs_chats, fs_index |-> fs_index, current_chat_id |-> current_chat_id,
     manifest |-> manifest, pending_event_lines |-> pending_event_lines,
     manifest_dirty |-> manifest_dirty, index_dirty |-> index_dirty,
     flush_due_at |-> flush_due_at, scene_dirty |-> scene_dirty,
     checkpoint_due_at |-> checkpoint_due_at, index_latest |-> index_latest]

\* a chat directory that does not exist; of a directory, exists says whether it holds
\* manifest.json, journal whether it holds events.jsonl, session whether it holds the
\* snapshot file session.pse
NoDir ==
    [exists |-> FALSE, manifest |-> NoManifest, journal |-> FALSE, events |-> <<>>,
     session |-> FALSE]

\* a manifest.json that json.load cannot parse, and one that holds JSON other than an
\* object
UnparseableManifest == [chat_id |-> NoChat, json |-> "unparseable"]
NonObjectManifest == [chat_id |-> NoChat, json |-> "array"]

\* lines of events.jsonl other than records: a blank line, a line cut short, and a line
\* cut inside a character, which is no UTF-8 text
BlankLine == [ts |-> 0, role |-> "", text |-> <<"\n">>]
TornLine == [ts |-> 0, role |-> "", text |-> <<"{\"ts\":">>]
UndecodableLine == [ts |-> 0, role |-> "", text |-> <<"\\xc3">>]
\* the line a record makes when it is written after a line that was cut short
MergedLine == [ts |-> 0, role |-> "", text |-> <<"{\"ts\":{\"ts\":">>]

IsAlnum(ch) == ch \in Digits \cup Letters

RECURSIVE DropDashes(_)
DropDashes(s) == IF s # <<>> /\ Head(s) = "-" THEN DropDashes(Tail(s)) ELSE s

RECURSIVE SlugWord(_)
SlugWord(s) == IF s = <<>> \/ Head(s) = "-" THEN <<>> ELSE <<Head(s)>> \o SlugWord(Tail(s))

RECURSIVE JoinSlugParts(_)
\* "-".join(part for part in raw.split("-") if part)
JoinSlugParts(s) ==
    LET t == DropDashes(s)
        word == SlugWord(t)
        rest == JoinSlugParts(SubSeq(t, Len(word) + 1, Len(t)))
    IN  IF t = <<>> THEN <<>>
        ELSE IF rest = <<>> THEN word ELSE word \o <<"-">> \o rest

_slug(text, fallback, max_len) ==
    LET mapped == [i \in 1..Len(text) |-> IF IsAlnum(text[i]) THEN LowerChar(text[i]) ELSE "-"]
        raw == IF JoinSlugParts(mapped) = <<>> THEN fallback ELSE JoinSlugParts(mapped)
    IN  SubSeq(raw, 1, IF Len(raw) < max_len THEN Len(raw) ELSE max_len)

\* str.replace("-", " ")
DashesToSpaces(s) == [i \in 1..Len(s) |-> IF s[i] = "-" THEN " " ELSE s[i]]

\* _first_line of a text without line breaks
_first_line(text) ==
    LET line == Strip(text)
    IN  IF Len(line) > FirstLineMaxLen
        THEN SubSeq(line, 1, FirstLineMaxLen - 1) \o <<".", ".", ".">>
        ELSE line

\* the "%Y-%m-%d %H:%M" stamp of a time
Stamp(now) == <<ToString(now)>>

_new_manifest(chat_id, title_hint, now) ==
    LET slug == Strip(DashesToSpaces(_slug(title_hint, <<"n", "e", "w", "-", "c", "h", "a", "t">>,
                                           TitleSlugMaxLen)))
    IN  [chat_id |-> chat_id,
         title |-> Stamp(now) \o <<" ", "-", " ">> \o
                   (IF slug # <<>> THEN slug ELSE <<"n", "e", "w", " ", "c", "h", "a", "t">>),
         created_at |-> now, updated_at |-> now, last_opened_at |-> now,
         preview |-> <<>>, message_count |-> 0, has_session_pse |-> FALSE,
         runtime_state |-> SessionPayload(<<"a", "i">>, TRUE, <<>>, <<>>, FALSE, FALSE),
         last_pse_save_ok |-> TRUE, last_pse_error |-> NoError]

\* a row of index.jsonl; a tombstone row carries chat_id, deleted and updated_at only,
\* the fields it lacks read as row.get() reads them
_index_row_from_manifest(m) ==
    [chat_id |-> m.chat_id, deleted |-> FALSE, title |-> m.title, updated_at |-> m.updated_at,
     preview |-> m.preview, message_count |-> m.message_count,
     has_session_pse |-> m.has_session_pse, last_pse_save_ok |-> m.last_pse_save_ok]

TombstoneRow(chat_id, now) ==
    [chat_id |-> chat_id, deleted |-> TRUE, title |-> <<>>, updated_at |-> now,
     preview |-> <<>>, message_count |-> 0, has_session_pse |-> FALSE,
     last_pse_save_ok |-> TRUE]

\* a listing that shows every chat
EveryRowVisible(row) == TRUE

\* _is_visible_chat_row
_is_visible_chat_row(row) == row.message_count > 0

\* self._index_latest is a dict: a sequence of rows in insertion order, one per chat_id
DictKeys(d) == {d[i].chat_id : i \in 1..Len(d)}

DictPop(d, chat_id) == SelectSeq(d, LAMBDA row : row.chat_id # chat_id)

DictSet(d, row) ==
    IF row.chat_id \in DictKeys(d)
    THEN [i \in 1..Len(d) |-> IF d[i].chat_id = row.chat_id THEN row ELSE d[i]]
    ELSE Append(d, row)

\* time.monotonic() + self.flush_delay_sec
_touch_flush_deadline(now) == now + FlushDelay

\* lines 460-461: the lines are written at the end of events.jsonl; after a line that
\* was cut short and has no newline, the first of them continues that line
WriteLines(events, lines) ==
    IF events # <<>> /\ events[Len(events)] = TornLine /\ lines # <<>>
    THEN SubSeq(events, 1, Len(events) - 1) \o <<MergedLine>> \o Tail(lines)
    ELSE events \o lines

\* a manifest written in place: manifest.json holds a part of the text, then all of it
ManifestWrittenInPlace(old, new) ==
    {[manifest |-> UnparseableManifest, tmp |-> "none"], [manifest |-> new, tmp |-> "none"]}

\* _atomic_write_json: what manifest.json and manifest.json.tmp hold after each file
\* operation: the text written to the tmp file in part, in full, and the rename
ManifestWritePoints(old, new) ==
    {[manifest |-> old, tmp |-> "partial"], [manifest |-> old, tmp |-> "complete"],
     [manifest |-> new, tmp |-> "none"]}

\* flush_now: pending event lines to events.jsonl, the manifest to manifest.json, the
\* chat's row (or its tombstone) to index.jsonl
flush_now(s, now) ==
    IF s.manifest = NoManifest \/ s.current_chat_id = NoChat
    THEN [s EXCEPT !.flush_due_at = NoDeadline]
    ELSE LET c == s.current_chat_id
             row == _index_row_from_manifest(s.manifest)
             dir == s.fs_chats[c]
             dir2 == [dir EXCEPT !.events = WriteLines(@, s.pending_event_lines),
                                 !.manifest = IF s.manifest_dirty THEN s.manifest ELSE @]
         IN  [s EXCEPT
                 !.fs_chats = [@ EXCEPT ![c] = dir2],
                 !.pending_event_lines = <<>>,
                 !.manifest_dirty = FALSE,
                 !.index_latest =
                     IF ~s.index_dirty THEN @
                     ELSE IF _is_visible_chat_row(row) THEN DictSet(@, row)
                     ELSE DictPop(@, c),
                 !.fs_index =
                     IF ~s.index_dirty THEN @
                     ELSE IF _is_visible_chat_row(row) THEN Append(@, row)
                     ELSE IF c \in DictKeys(s.index_latest) THEN Append(@, TombstoneRow(c, now))
                     ELSE @,
                 !.index_dirty = FALSE,
                 !.flush_due_at = NoDeadline]

\* the files after each file operation of flush_now, the points at which the process
\* can die: the journal lines written one after the other (the next one in part or not at
\* all), the points of the manifest write, and the row appended to index.jsonl
FlushPoints(s, now) ==
    IF s.manifest = NoManifest \/ s.current_chat_id = NoChat THEN {}
    ELSE LET c == s.current_chat_id
             dir == s.fs_chats[c]
             lines == s.pending_event_lines
             done == flush_now(s, now)
             upto(k) == [dir EXCEPT !.events = WriteLines(@, SubSeq(lines, 1, k))]
             written == upto(Len(lines))
         IN  {[dir |-> upto(k), tmp |-> "none", index |-> s.fs_index] : k \in 0..Len(lines)}
             \cup {[dir |-> [upto(k) EXCEPT !.events = Append(@, TornLine)], tmp |-> "none",
                    index |-> s.fs_index] : k \in 0..(Len(lines) - 1)}
             \cup (IF s.manifest_dirty
                   THEN {[dir |-> [written EXCEPT !.manifest = p.manifest], tmp |-> p.tmp,
                          index |-> s.fs_index] :
                            p \in ManifestWritePoints(dir.manifest, s.manifest)}
                   ELSE {})
             \cup {[dir |-> done.fs_chats[c], tmp |-> "none", index |-> done.fs_index]}

\* lines 531-539: the store forgets its current chat
ForgetCurrent(s) ==
    [s EXCEPT !.current_chat_id = NoChat, !.manifest = NoManifest,
              !.pending_event_lines = <<>>, !.manifest_dirty = FALSE, !.index_dirty = FALSE,
              !.flush_due_at = NoDeadline, !.scene_dirty = FALSE,
              !.checkpoint_due_at = NoDeadline]

\* lines 541-543: shutil.rmtree(chat_dir, ignore_errors=True) removes the directory
\* (rmtree_ok) or fails and leaves it
RemoveDir(fs, chat_id, rmtree_ok) ==
    IF fs[chat_id].exists /\ rmtree_ok THEN [fs EXCEPT ![chat_id] = NoDir] ELSE fs

\* a deletion that appends the tombstone row and leaves the listing as it was
TombstoneOnly(s, chat_id, now) ==
    [s EXCEPT !.fs_index = Append(@, TombstoneRow(chat_id, now))]

\* lines 545-546: the chat leaves the listing and a tombstone row is appended
Unlist(s, chat_id, now) ==
    [s EXCEPT !.index_latest = DictPop(@, chat_id),
              !.fs_index = Append(@, TombstoneRow(chat_id, now))]

\* delete_chat for a non-empty chat_id
delete_chat(s, chat_id, rmtree_ok, now) ==
    LET s1 == IF s.current_chat_id = chat_id THEN ForgetCurrent(flush_now(s, now)) ELSE s
        s2 == [s1 EXCEPT !.fs_chats = RemoveDir(@, chat_id, rmtree_ok)]
    IN  Unlist(s2, chat_id, now)

\* lines 248-250: the empty draft create_chat drops, NoChat when there is none
EmptyDraft(s) ==
    IF s.current_chat_id # NoChat /\ s.manifest # NoManifest /\ s.manifest.message_count = 0
    THEN s.current_chat_id
    ELSE NoChat

\* create_chat; chat_id is the fresh id _new_chat_id returns
create_chat(s, title_hint, chat_id, rmtree_ok, now) ==
    LET s1 == flush_now(s, now)
        s2 == IF EmptyDraft(s1) # NoChat THEN delete_chat(s1, EmptyDraft(s1), rmtree_ok, now)
              ELSE s1
        m == _new_manifest(chat_id, title_hint, now)
    IN  [s2 EXCEPT
            !.fs_chats = [@ EXCEPT ![chat_id] = [exists |-> TRUE, manifest |-> m,
                                                 journal |-> TRUE, events |-> <<>>,
                                                 session |-> FALSE]],
            !.current_chat_id = chat_id,
            !.manifest = m,
            !.scene_dirty = FALSE,
            !.checkpoint_due_at = NoDeadline,
            !.pending_event_lines = <<>>,
            !.manifest_dirty = FALSE,
            !.index_dirty = FALSE,
            !.flush_due_at = _touch_flush_deadline(now)]

\* open_chat for a non-empty chat_id
open_chat(s, chat_id, now) ==
    LET s1 == flush_now(s, now)
    IN  IF ~s1.fs_chats[chat_id].exists THEN s1
        ELSE IF s1.fs_chats[chat_id].manifest = UnparseableManifest THEN s1
        ELSE flush_now(
                 [s1 EXCEPT
                     !.current_chat_id = chat_id,
                     !.manifest = [s1.fs_chats[chat_id].manifest EXCEPT !.last_opened_at = now],
                     !.manifest_dirty = TRUE,
                     !.index_dirty = TRUE,
                     !.scene_dirty = FALSE,
                     !.checkpoint_due_at = NoDeadline,
                     !.flush_due_at = _touch_flush_deadline(now)],
                 now)

\* mark_scene_dirty
mark_scene_dirty(s, chat_id) ==
    IF chat_id # s.current_chat_id THEN s ELSE [s EXCEPT !.scene_dirty = TRUE]

\* _touch_checkpoint_deadline with a positive checkpoint_delay_sec
_touch_checkpoint_deadline(now) == now + CheckpointDelay

\* schedule_checkpoint
schedule_checkpoint(s, chat_id, now) ==
    IF chat_id # s.current_chat_id \/ ~s.scene_dirty THEN s
    ELSE [s EXCEPT !.checkpoint_due_at = _touch_checkpoint_deadline(now)]

\* _update_save_status; error is the text run_checkpoint passes, NoError for None
_update_save_status(s, ok, error, now) ==
    IF s.manifest = NoManifest THEN s
    ELSE [s EXCEPT
             !.manifest = [@ EXCEPT
                 !.last_pse_save_ok = ok,
                 !.last_pse_error = IF ok THEN NoError
                                    ELSE IF error # <<>> THEN error ELSE MsgUnknownError,
                 !.has_session_pse = IF ok THEN TRUE ELSE @,
                 !.updated_at = now],
             !.manifest_dirty = TRUE,
             !.index_dirty = TRUE,
             !.flush_due_at = _touch_flush_deadline(now)]

\* lines 417-420: run_checkpoint goes on to call save_callback
CallsSaveCallback(s) == s.current_chat_id # NoChat /\ s.scene_dirty

\* a checkpoint that gives up after a failed save
run_checkpoint_once(s, save, now) ==
    IF ~CallsSaveCallback(s) THEN s
    ELSE flush_now([_update_save_status(s, save.ok, save.error, now) EXCEPT
                       !.scene_dirty = FALSE, !.checkpoint_due_at = NoDeadline], now)

\* run_checkpoint; save is what save_callback does: it returns (ok) or raises an
\* exception whose str() is error
run_checkpoint(s, save, now) ==
    IF ~CallsSaveCallback(s) THEN s
    ELSE LET s1 == _update_save_status(s, save.ok, save.error, now)
             s2 == [s1 EXCEPT
                       !.scene_dirty = ~save.ok,
                       !.checkpoint_due_at = IF ~save.ok THEN _touch_checkpoint_deadline(now)
                                             ELSE NoDeadline]
         IN  flush_now(s2, now)

\* lines 448-449 of pump: the flush when its deadline has come
PumpFlush(s, now) ==
    IF s.flush_due_at # NoDeadline /\ now >= s.flush_due_at THEN flush_now(s, now) ELSE s

\* line 451 of pump: the checkpoint deadline has come
CheckpointDue(s, now) == s.checkpoint_due_at # NoDeadline /\ now >= s.checkpoint_due_at

\* pump
pump(s, save, now) ==
    LET s1 == PumpFlush(s, now)
    IN  IF CheckpointDue(s1, now) THEN run_checkpoint(s1, save, now) ELSE s1

\* _normalize_event and the line json.dumps makes of the record
EventLine(event, now) == [ts |-> now, role |-> event.role, text |-> event.text]

\* an append that counts only the events that have a preview
CountsPreviewedOnly(s, event, first_user_captured, now) ==
    [s EXCEPT
        !.pending_event_lines = Append(@, EventLine(event, now)),
        !.manifest = [@ EXCEPT
            !.message_count = IF _first_line(event.text) # <<>> THEN @ + 1 ELSE @,
            !.updated_at = now]]

\* lines 367-380: one event of append_events
AppendOne(s, event, first_user_captured, now) ==
    LET record == EventLine(event, now)
        preview == _first_line(record.text)
        retitle == first_user_captured /\ record.role = "user" /\ preview # <<>>
    IN  [s EXCEPT
            !.pending_event_lines = Append(@, record),
            !.manifest = [@ EXCEPT
                !.message_count = @ + 1,
                !.updated_at = record.ts,
                !.preview = IF preview # <<>> THEN preview ELSE @,
                !.title = IF retitle
                          THEN Stamp(now) \o <<" ", "-", " ">> \o
                               DashesToSpaces(_slug(preview, <<"c", "h", "a", "t">>,
                                                    TitleSlugMaxLen))
                          ELSE @]]

RECURSIVE AppendEach(_, _, _, _)
AppendEach(s, events, first_user_captured, now) ==
    IF events = <<>> THEN s
    ELSE LET e == Head(events)
             still == first_user_captured /\
                      ~(e.role = "user" /\ _first_line(e.text) # <<>>)
         IN  AppendEach(AppendOne(s, e, first_user_captured, now), Tail(events), still, now)

append_events(s, chat_id, events, now) ==
    IF s.manifest = NoManifest \/ chat_id # s.current_chat_id THEN s
    ELSE LET s1 == AppendEach(s, events, s.manifest.message_count = 0, now)
         IN  IF events = <<>> THEN s1
             ELSE [s1 EXCEPT !.manifest_dirty = TRUE, !.index_dirty = TRUE,
                             !.flush_due_at = _touch_flush_deadline(now)]

\* _sanitize_runtime_state: state is a session state dict (None reads as the empty
\* dict); the result keeps input_mode, history and model_info only
_sanitize_runtime_state(state) ==
    SessionPayload(IF Lower(state.input_mode) = <<"c", "l", "i">> THEN <<"c", "l", "i">>
                   ELSE <<"a", "i">>,
                   TRUE,
                   LastN(IF state.history_is_list THEN state.history ELSE <<>>, HistoryMax),
                   <<>>, state.has_enabled, state.enabled)

\* set_runtime_state
set_runtime_state(s, chat_id, state, now) ==
    IF s.manifest = NoManifest \/ chat_id # s.current_chat_id THEN s
    ELSE [s EXCEPT
             !.manifest = [@ EXCEPT !.runtime_state = _sanitize_runtime_state(state),
                                    !.updated_at = now],
             !.manifest_dirty = TRUE,
             !.index_dirty = IF s.manifest.message_count > 0 THEN TRUE ELSE @,
             !.flush_due_at = _touch_flush_deadline(now)]

\* load_chat returned None, and load_chat raised an exception
LoadNone == [chat_id |-> NoChat, loaded |-> "none"]
LoadRaised == [chat_id |-> NoChat, loaded |-> "raised"]

\* lines 501-510: the lines of events.jsonl that are kept
ParsedLines(lines) ==
    SelectSeq(lines, LAMBDA line : line \notin {BlankLine, TornLine, MergedLine})

\* load_chat: the store afterwards and what the call returns; the text decoder raises
\* on a line that is no UTF-8 text (line 502), manifest.get on a manifest that is no
\* dict (line 512)
load_chat(s, chat_id, now) ==
    LET s1 == flush_now(s, now)
        dir == s1.fs_chats[chat_id]
        undecodable == dir.journal /\ \E i \in 1..Len(dir.events) : dir.events[i] = UndecodableLine
    IN  [store |-> s1,
         result |-> IF chat_id = NoChat THEN LoadNone
                    ELSE IF ~dir.exists \/ dir.manifest = UnparseableManifest THEN LoadNone
                    ELSE IF undecodable \/ dir.manifest = NonObjectManifest THEN LoadRaised
                    ELSE [chat_id |-> chat_id, loaded |-> "chat", manifest |-> dir.manifest,
                          events |-> IF dir.journal THEN ParsedLines(dir.events) ELSE <<>>,
                          session_exists |-> dir.session]]

\* the position of the row list.sort(key=updated_at) puts first: the first row with the
\* least key, or with reverse=True the first row with the greatest key (the sort is stable)
FirstInOrder(rows, reverse) ==
    CHOOSE i \in 1..Len(rows) :
        /\ \A j \in 1..Len(rows) :
              IF reverse THEN rows[j].updated_at <= rows[i].updated_at
              ELSE rows[j].updated_at >= rows[i].updated_at
        /\ \A j \in 1..(i - 1) : rows[j].updated_at # rows[i].updated_at

RECURSIVE SortByUpdatedAt(_, _)
SortByUpdatedAt(rows, reverse) ==
    IF rows = <<>> THEN <<>>
    ELSE LET i == FirstInOrder(rows, reverse)
         IN  <<rows[i]>> \o SortByUpdatedAt(RemoveAt(rows, i), reverse)

\* `needle in text`
Contains(text, needle) ==
    \E i \in 0..(Len(text) - Len(needle)) : SubSeq(text, i + 1, i + Len(needle)) = needle

\* a listing in the order of increasing updated_at
list_chats_ascending(d, query, offset, limit) ==
    LET rows == SortByUpdatedAt(SelectSeq(d, _is_visible_chat_row), FALSE)
        start == Max(0, offset)
    IN  SubSeq(rows, start + 1, Min(start + Max(1, limit), Len(rows)))

\* list_chats on the dict d
list_chats(d, query, offset, limit) ==
    LET query_low == Lower(Strip(query))
        rows == SortByUpdatedAt(SelectSeq(d, _is_visible_chat_row), TRUE)
        hits == IF query_low = <<>> THEN rows
                ELSE SelectSeq(rows, LAMBDA row : \/ Contains(Lower(row.title), query_low)
                                                  \/ Contains(Lower(row.preview), query_low))
        start == Max(0, offset)
        end == start + Max(1, limit)
    IN  SubSeq(hits, start + 1, Min(end, Len(hits)))

count_chats(d) == Len(d)

RECURSIVE DeleteEach(_, _, _, _)
\* lines 556-559: delete_chat on each chosen row; rmtree succeeds on the chats in
\* rmtree_ok
DeleteEach(s, rows, rmtree_ok, now) ==
    IF rows = <<>> THEN s
    ELSE DeleteEach(delete_chat(s, Head(rows).chat_id, Head(rows).chat_id \in rmtree_ok, now),
                    Tail(rows), rmtree_ok, now)

\* a choice of the rows with the greatest updated_at instead
NewestRows(d, count) ==
    LET rows == SortByUpdatedAt(d, TRUE)
    IN  SubSeq(rows, 1, Min(Max(0, count), Len(rows)))

\* lines 553-556: the rows delete_oldest deletes
OldestRows(d, count) ==
    LET n == Max(0, count)
        rows == SortByUpdatedAt(d, FALSE)
    IN  SubSeq(rows, 1, Min(n, Len(rows)))

delete_oldest(s, count, rmtree_ok, now) ==
    DeleteEach(s, OldestRows(s.index_latest, count), rmtree_ok, now)

\* lines 555-560: the number delete_oldest returns, one for each delete_chat call, which
\* returns True for every row's chat_id
delete_oldest_value(s, count) == Len(OldestRows(s.index_latest, count))

RECURSIVE ReplayIndex(_, _)
\* lines 137-156: the rows of index.jsonl replayed in file order onto the dict d
ReplayIndex(d, rows) ==
    IF rows = <<>> THEN d
    ELSE LET row == Head(rows)
         IN  ReplayIndex(IF row.deleted THEN DictPop(d, row.chat_id)
                         ELSE IF _is_visible_chat_row(row) THEN DictSet(d, row)
                         ELSE DictPop(d, row.chat_id),
                         Tail(rows))

RECURSIVE ScanManifests(_, _, _)
\* lines 161-177: the manifests of the directories under root_dir, in the order `order`
\* that iterdir() yields them
ScanManifests(d, fs, order) ==
    IF order = <<>> THEN d
    ELSE IF fs[Head(order)].manifest = UnparseableManifest THEN ScanManifests(d, fs, Tail(order))
    ELSE LET row == _index_row_from_manifest(fs[Head(order)].manifest)
         IN  ScanManifests(IF _is_visible_chat_row(row) THEN DictSet(d, row) ELSE d,
                           fs, Tail(order))

_load_index_cache(index_rows, fs, order) ==
    LET replayed == ReplayIndex(<<>>, index_rows)
    IN  IF replayed # <<>> THEN replayed ELSE ScanManifests(<<>>, fs, order)

\* close() and AiChatStore(root_dir) on the same root directory (lines 579-581, 36-52)
Reopened(s, order, now) ==
    LET s1 == flush_now(s, now)
    IN  [ForgetCurrent(s1) EXCEPT
            !.index_latest = _load_index_cache(s1.fs_index, s1.fs_chats, order)]

----------------------------------------------------------------------------
\* The caller of the store.

Chats == 1..MaxChats

TitleHints == {<<>>}

UserEvent == [role |-> "user", text |-> <<"H", "i">>]
AiEvent == [role |-> "ai", text |-> <<>>]

\* the event batches the caller appends
EventBatches == {<<>>, <<AiEvent>>, <<UserEvent>>}

\* the event batches the chat list is exercised with: a turn's events in one batch
ListingBatches == {<<>>, <<AiEvent>>, <<AiEvent, UserEvent>>}

\* the counts the chat list passes to delete_oldest: none, one, more than one
OldestCounts == {0, 1, 2}

\* what save_callback does: it saves the session, or raises an exception with or
\* without a message
SaveOutcomes ==
    {[ok |-> TRUE, error |-> <<>>], [ok |-> FALSE, error |-> <<"e">>],
     [ok |-> FALSE, error |-> <<>>]}

\* the orders in which iterdir() can yield the directories of dirs
DirOrders(dirs) ==
    {order \in [1..Cardinality(dirs) -> dirs] :
        \A i, j \in 1..Cardinality(dirs) : order[i] = order[j] => i = j}

ExistingDirs(fs) == {c \in Chats : fs[c].exists}

\* the store and its files become s
StoreBecomes(s) ==
    /\ fs_chats' = s.fs_chats
    /\ fs_index' = s.fs_index
    /\ current_chat_id' = s.current_chat_id
    /\ manifest' = s.manifest
    /\ pending_event_lines' = s.pending_event_lines
    /\ manifest_dirty' = s.manifest_dirty
    /\ index_dirty' = s.index_dirty
    /\ flush_due_at' = s.flush_due_at
    /\ scene_dirty' = s.scene_dirty
    /\ checkpoint_due_at' = s.checkpoint_due_at
    /\ index_latest' = s.index_latest

\* the record of the operation that returned: base is the current chat's message_count
\* before the append_events calls made since the last other operation, added the number
\* of events those calls appended, pending the number of unflushed event lines the chat
\* of a delete_chat call had when the call was made
Returned(op, chat_id, base, added, pending) ==
    last_op' = [op |-> op, chat_id |-> chat_id, base |-> base, added |-> added,
                pending |-> pending, count |-> 0, value |-> 0, listed |-> <<>>,
                invoked |-> FALSE, save_ok |-> FALSE, retry |-> FALSE, error |-> NoError]

\* the record of a delete_oldest(count) call that returned value, made when the rows of
\* listed were listed
ReturnedOldest(base, count, value, listed) ==
    last_op' = [op |-> "delete_oldest", chat_id |-> NoChat, base |-> base, added |-> 0,
                pending |-> 0, count |-> count, value |-> value, listed |-> listed,
                invoked |-> FALSE, save_ok |-> FALSE, retry |-> FALSE, error |-> NoError]

CountOf(s) == IF s.manifest = NoManifest THEN 0 ELSE s.manifest.message_count

\* the record of a run_checkpoint or pump call: invoked, whether it called
\* save_callback; save_ok, whether the callback returned; retry, whether the manifest
\* recorded a failed save when the call was made; error, the str() of the exception
\* the callback raised
ReturnedCheckpoint(op, invoked, save, retry) ==
    last_op' = [op |-> op, chat_id |-> current_chat_id, base |-> CountOf(StoreState),
                added |-> 0,
                pending |-> 0, count |-> 0, value |-> 0, listed |-> <<>>,
                invoked |-> invoked, save_ok |-> invoked /\ save.ok, retry |-> retry,
                error |-> IF invoked THEN save.error ELSE NoError]

StoreCall ==
    /\ ops_left > 0
    /\ ops_left' = ops_left - 1
    /\ UNCHANGED <<clock, rt_vars, det_vars>>

CreateChat ==
    /\ StoreCall
    /\ chats_created < MaxChats
    /\ chats_created' = chats_created + 1
    /\ \E title_hint \in TitleHints, rmtree_ok \in BOOLEAN :
          LET s1 == flush_now(StoreState, clock)
              s2 == create_chat(StoreState, title_hint, chats_created + 1, rmtree_ok, clock)
          IN  /\ StoreBecomes(s2)
              /\ Returned("create_chat", chats_created + 1, 0, 0, 0)
              /\ removed_chats' = removed_chats \cup ({EmptyDraft(s1)} \ {NoChat})

OpenChat(chat_id) ==
    /\ StoreCall
    /\ chat_id <= chats_created
    /\ LET s2 == open_chat(StoreState, chat_id, clock)
       IN  /\ StoreBecomes(s2)
           /\ Returned("open_chat", chat_id, CountOf(s2), 0, 0)
           /\ removed_chats' = IF s2.current_chat_id = chat_id THEN removed_chats \ {chat_id}
                               ELSE removed_chats
    /\ UNCHANGED chats_created

AppendEvents(chat_id, events) ==
    /\ StoreCall
    /\ chat_id <= chats_created
    /\ LET s2 == append_events(StoreState, chat_id, events, clock)
           appended == Len(s2.pending_event_lines) - Len(pending_event_lines)
       IN  /\ StoreBecomes(s2)
           /\ IF last_op.op = "append_events"
              THEN Returned("append_events", chat_id, last_op.base, last_op.added + appended, 0)
              ELSE Returned("append_events", chat_id, CountOf(StoreState), appended, 0)
    /\ UNCHANGED <<chats_created, removed_chats>>

FlushNow ==
    /\ StoreCall
    /\ StoreBecomes(flush_now(StoreState, clock))
    /\ Returned("flush_now", current_chat_id, last_op.base, last_op.added, 0)
    /\ UNCHANGED <<chats_created, removed_chats>>

DeleteChat(chat_id) ==
    /\ StoreCall
    /\ chat_id <= chats_created
    /\ \E rmtree_ok \in BOOLEAN :
          LET s2 == delete_chat(StoreState, chat_id, rmtree_ok, clock)
          IN  /\ StoreBecomes(s2)
              /\ Returned("delete_chat", chat_id, CountOf(s2), 0,
                          IF chat_id = current_chat_id THEN Len(pending_event_lines)
                          ELSE 0)
    /\ removed_chats' = removed_chats \cup {chat_id}
    /\ UNCHANGED chats_created

DeleteOldest(count) ==
    /\ StoreCall
    /\ \E rmtree_ok \in SUBSET DictKeys(index_latest) :
          LET s2 == delete_oldest(StoreState, count, rmtree_ok, clock)
          IN  /\ StoreBecomes(s2)
              /\ ReturnedOldest(CountOf(s2), count, delete_oldest_value(StoreState, count),
                                index_latest)
    /\ removed_chats' = removed_chats \cup DictKeys(OldestRows(index_latest, count))
    /\ UNCHANGED chats_created

\* the application closes the store and a new store object opens the same root directory
Reopen ==
    /\ StoreCall
    /\ \E order \in DirOrders(ExistingDirs(fs_chats)) :
          StoreBecomes(Reopened(StoreState, order, clock))
    /\ Returned("reopen", NoChat, 0, 0, 0)
    /\ UNCHANGED <<chats_created, removed_chats>>

\* the process dies inside a flush_now call, at one of its points, and the application is
\* started again: a new store object opens the same root directory
CrashInFlush ==
    /\ StoreCall
    /\ \E point \in FlushPoints(StoreState, clock) :
          LET fs == [fs_chats EXCEPT ![current_chat_id] = point.dir]
          IN  \E order \in DirOrders(ExistingDirs(fs)) :
                  StoreBecomes([ForgetCurrent(StoreState) EXCEPT
                                   !.fs_chats = fs,
                                   !.fs_index = point.index,
                                   !.index_latest = _load_index_cache(point.index, fs, order)])
    /\ Returned("crash", current_chat_id, CountOf(StoreState), 0, Len(pending_event_lines))
    /\ UNCHANGED <<chats_created, removed_chats>>

MarkSceneDirty(chat_id) ==
    /\ StoreCall
    /\ StoreBecomes(mark_scene_dirty(StoreState, chat_id))
    /\ Returned("mark_scene_dirty", chat_id, CountOf(StoreState), 0, 0)
    /\ UNCHANGED <<chats_created, removed_chats>>

ScheduleCheckpoint(chat_id) ==
    /\ StoreCall
    /\ StoreBecomes(schedule_checkpoint(StoreState, chat_id, clock))
    /\ Returned("schedule_checkpoint", chat_id, CountOf(StoreState), 0, 0)
    /\ UNCHANGED <<chats_created, removed_chats>>

SetRuntimeState(chat_id, state) ==
    /\ StoreCall
    /\ StoreBecomes(set_runtime_state(StoreState, chat_id, state, clock))
    /\ Returned("set_runtime_state", chat_id, CountOf(StoreState), 0, 0)
    /\ UNCHANGED <<chats_created, removed_chats>>

\* the record of a load_chat call; pending is the number of events that waited to be
\* flushed when the call was made
ReturnedLoad(chat_id, result) ==
    last_op' = [op |-> "load_chat", chat_id |-> chat_id, base |-> CountOf(StoreState),
                added |-> 0, pending |-> Len(pending_event_lines), count |-> 0, value |-> 0,
                listed |-> <<>>, invoked |-> FALSE, save_ok |-> FALSE, retry |-> FALSE,
                error |-> NoError, result |-> result]

LoadChat(chat_id) ==
    /\ StoreCall
    /\ chat_id <= chats_created
    /\ LET loaded == load_chat(StoreState, chat_id, clock)
       IN  /\ StoreBecomes(loaded.store)
           /\ ReturnedLoad(chat_id, loaded.result)
    /\ UNCHANGED <<chats_created, removed_chats>>

\* what a crash, the application or another program does to the files of a chat that
\* is not the current one
FileChanges ==
    {"manifest_removed", "manifest_truncated", "manifest_array", "journal_removed",
     "journal_blank_line", "journal_torn_line", "journal_torn_character",
     "session_written"}

ChangedDir(dir, change) ==
    CASE change = "manifest_removed" -> [dir EXCEPT !.exists = FALSE, !.manifest = NoManifest]
      [] change = "manifest_truncated" -> [dir EXCEPT !.manifest = UnparseableManifest]
      [] change = "manifest_array" -> [dir EXCEPT !.manifest = NonObjectManifest]
      [] change = "journal_removed" -> [dir EXCEPT !.journal = FALSE, !.events = <<>>]
      [] change = "journal_blank_line" -> [dir EXCEPT !.events = Append(@, BlankLine)]
      [] change = "journal_torn_line" -> [dir EXCEPT !.events = Append(@, TornLine)]
      [] change = "journal_torn_character" -> [dir EXCEPT !.events = Append(@, UndecodableLine)]
      [] change = "session_written" -> [dir EXCEPT !.session = TRUE]

FilesChange(chat_id, change) ==
    /\ StoreCall
    /\ chat_id # current_chat_id
    /\ fs_chats[chat_id].exists
    /\ change \in {"journal_blank_line", "journal_torn_line", "journal_torn_character"}
           => fs_chats[chat_id].journal
    /\ fs_chats' = [fs_chats EXCEPT ![chat_id] = ChangedDir(@, change)]
    /\ Returned("files_change", chat_id, 0, 0, 0)
    /\ UNCHANGED <<fs_index, current_chat_id, manifest, pending_event_lines, manifest_dirty,
                   index_dirty, flush_due_at, scene_dirty, checkpoint_due_at, index_latest,
                   chats_created, removed_chats>>

\* the manifest in memory records a failed save
SaveFailedBefore == manifest # NoManifest /\ ~manifest.last_pse_save_ok

RunCheckpoint(save) ==
    /\ StoreCall
    /\ StoreBecomes(run_checkpoint(StoreState, save, clock))
    /\ ReturnedCheckpoint("run_checkpoint", CallsSaveCallback(StoreState), save,
                          SaveFailedBefore)
    /\ UNCHANGED <<chats_created, removed_chats>>

Pump(save) ==
    /\ StoreCall
    /\ StoreBecomes(pump(StoreState, save, clock))
    /\ LET s1 == PumpFlush(StoreState, clock)
       IN  ReturnedCheckpoint("pump", CheckpointDue(s1, clock) /\ CallsSaveCallback(s1),
                              save, SaveFailedBefore)
    /\ UNCHANGED <<chats_created, removed_chats>>

\* a second passes
Tick ==
    /\ clock < MaxClock
    /\ clock' = clock + 1
    /\ UNCHANGED <<rt_vars, det_vars, fs_chats, fs_index, current_chat_id, manifest,
                   pending_event_lines, manifest_dirty, index_dirty, flush_due_at,
                   scene_dirty, checkpoint_due_at, index_latest, chats_created, ops_left,
                   last_op, removed_chats>>

----------------------------------------------------------------------------
\* The specifications.

\* AiRuntime.__init__ (runtime.py:69-121): whether AI is enabled follows the environment
----------------------------------------------------------------------------
\* DoomLoopDetector (doom_loop_detector.py).

DefaultThreshold == 3
MinThreshold == 2
MinFamilyWindow == 4

\* add_call returned None
NoReport == [loop_type |-> "none", tool_name |-> "", call_count |-> 0, families |-> <<>>]

Report(loop_type, tool_name, call_count, families) ==
    [loop_type |-> loop_type, tool_name |-> tool_name, call_count |-> call_count,
     families |-> families]

\* the arguments of a tool call: command is arguments["command"], <<>> when the key is
\* absent; unserializable, json.dumps cannot encode the dict
ToolArguments(command, unserializable) ==
    [command |-> command, unserializable |-> unserializable]

\* _normalize_args
_normalize_args(arguments) ==
    IF arguments.unserializable \/ arguments.command = <<>> THEN <<"{", "}">>
    ELSE <<"{", "\"", "command", "\"", ":", " ", "\"">> \o arguments.command \o <<"\"", "}">>

\* _command_family
_command_family(tool_name, arguments) ==
    IF tool_name = "run_pymol_command"
    THEN LET command == Lower(Strip(arguments.command))
         IN  IF command = <<>> THEN <<"run_pymol_command">>
             ELSE <<"cmd:">> \o FirstToken(command)
    ELSE IF tool_name = "" THEN <<"unknown">> ELSE <<tool_name>>

\* _is_oscillation
_is_oscillation(seq) ==
    /\ Len(seq) >= 3
    /\ Cardinality({seq[i] : i \in 1..Len(seq)}) = 2
    /\ \A i \in 3..Len(seq) : seq[i] = seq[i - 2]
    /\ \A i \in 2..Len(seq) : seq[i] # seq[i - 1]

\* deque(maxlen).append
DequeAppend(q, maxlen, x) ==
    LET longer == Append(q, x)
    IN  IF Len(longer) > maxlen THEN Tail(longer) ELSE longer

\* list(q)[-n:]
LastOf(q, n) == IF Len(q) <= n THEN q ELSE SubSeq(q, Len(q) - n + 1, Len(q))

AllSame(q) == \A i \in 1..Len(q) : q[i] = q[1]

FamilyWindowLen(th) == IF th > MinFamilyWindow THEN th ELSE MinFamilyWindow

\* \w of the regular expressions, on the characters the model uses
IsWordChar(ch) == ch \in Letters \cup Digits \cup {"_"}

RECURSIVE CollapseSpaces(_)
\* re.sub(r"[\s]+", " ", raw)
CollapseSpaces(s) ==
    IF s = <<>> THEN <<>>
    ELSE IF IsSpace(Head(s)) THEN <<" ">> \o CollapseSpaces(LStrip(s))
    ELSE <<Head(s)>> \o CollapseSpaces(Tail(s))

\* _normalize_intent_text
_normalize_intent_text(text) ==
    LET raw == Lower(Strip(text))
    IN  IF raw = <<>> THEN <<>>
        ELSE Strip(SelectSeq(CollapseSpaces(raw), LAMBDA ch : IsWordChar(ch) \/ IsSpace(ch)))

IntentMinLen == 20

\* a detector that reports no repeated intent
IntentNeverRepeats(top, count, th) == FALSE

\* line 69: the most common intent of the window is long enough and frequent enough
IntentRepeats(top, count, th) == Len(top) >= IntentMinLen /\ count >= th - 1

\* add_assistant_intent returned a report
IntentReport(call_count, assistant_intent) ==
    [loop_type |-> "assistant_intent_repeat", call_count |-> call_count,
     assistant_intent |-> assistant_intent]

CountIn(window, x) == Cardinality({i \in 1..Len(window) : window[i] = x})

\* Counter(window).most_common(1)[0][0]: the most frequent element, the one met first
\* among equally frequent ones
MostCommon(window) ==
    LET first == CHOOSE i \in 1..Len(window) :
                     /\ \A j \in 1..Len(window) :
                           CountIn(window, window[j]) <= CountIn(window, window[i])
                     /\ \A j \in 1..(i - 1) :
                           CountIn(window, window[j]) < CountIn(window, window[i])
    IN  window[first]

\* add_assistant_intent on the fields d: <<the fields afterwards, the value returned>>
add_assistant_intent(d, assistant_text) ==
    LET norm == _normalize_intent_text(assistant_text)
        intents == DequeAppend(d.recent_intents, FamilyWindowLen(d.threshold), norm)
        d2 == [d EXCEPT !.recent_intents = intents]
        window == LastOf(intents, d.threshold)
        top == MostCommon(window)
        count == CountIn(window, top)
    IN  IF norm = <<>> THEN <<d, NoReport>>
        ELSE IF Len(intents) < d.threshold THEN <<d2, NoReport>>
        ELSE IF IntentRepeats(top, count, d.threshold)
        THEN <<d2, IntentReport(count, top)>>
        ELSE <<d2, NoReport>>

\* the detector's fields
DetectorState ==
    [threshold |-> threshold, recent |-> recent, recent_families |-> recent_families,
     recent_intents |-> recent_intents]

\* __init__
NewDetector(th) ==
    [threshold |-> IF th > MinThreshold THEN th ELSE MinThreshold,
     recent |-> <<>>, recent_families |-> <<>>, recent_intents |-> <<>>]

\* the report of an add_call that looks at the command families first
ReportOnFamiliesFirst(d, tool_name) ==
    LET families == LastOf(d.recent_families, d.threshold)
    IN  IF Len(d.recent) < d.threshold THEN NoReport
        ELSE IF AllSame(families)
        THEN Report("command_family_repeat", tool_name, d.threshold, <<>>)
        ELSE IF AllSame(d.recent)
        THEN Report("exact_match", tool_name, d.threshold, <<>>)
        ELSE IF _is_oscillation(families)
        THEN Report("command_family_oscillation", tool_name, d.threshold, families)
        ELSE NoReport

\* lines 98-117 of add_call: the report on the windows d after the call was recorded
ReportOn(d, tool_name) ==
    LET families == LastOf(d.recent_families, d.threshold)
    IN  IF Len(d.recent) < d.threshold THEN NoReport
        ELSE IF AllSame(d.recent)
        THEN Report("exact_match", tool_name, d.threshold, <<>>)
        ELSE IF Len(d.recent_families) < d.threshold THEN NoReport
        ELSE IF AllSame(families)
        THEN Report("command_family_repeat", tool_name, d.threshold, <<>>)
        ELSE IF _is_oscillation(families)
        THEN Report("command_family_oscillation", tool_name, d.threshold, families)
        ELSE NoReport

\* lines 86-89 of add_call: the windows after the call was recorded
Recorded(d, call) ==
    [d EXCEPT
        !.recent = DequeAppend(@, d.threshold,
                               <<call.tool_name, _normalize_args(call.arguments),
                                 call.validation_required>>),
        !.recent_families = DequeAppend(@, FamilyWindowLen(d.threshold),
                                        _command_family(call.tool_name, call.arguments))]

\* an add_call that records snapshot calls like any other call
add_call_recording_snapshots(d, call) ==
    <<Recorded(d, call), ReportOn(Recorded(d, call), call.tool_name)>>

\* add_call: <<the detector afterwards, the value returned>>
add_call(d, call) ==
    IF call.tool_name = "capture_viewer_snapshot" THEN <<d, NoReport>>
    ELSE <<Recorded(d, call), ReportOn(Recorded(d, call), call.tool_name)>>

\* clear
clear(d) == [d EXCEPT !.recent = <<>>, !.recent_families = <<>>, !.recent_intents = <<>>]

ToolCall(tool_name, command, validation_required) ==
    [tool_name |-> tool_name, arguments |-> ToolArguments(command, FALSE),
     validation_required |-> validation_required]

CmdHide == <<"h", "i", "d", "e">>

\* the tool calls the Agent Client makes
DetectorCalls ==
    { ToolCall("run_pymol_command", CmdZoom, FALSE),
      ToolCall("run_pymol_command", CmdZoom, TRUE),
      ToolCall("run_pymol_command", CmdHide, FALSE),
      ToolCall("run_pymol_command", <<>>, FALSE),
      ToolCall("capture_viewer_snapshot", <<>>, FALSE),
      ToolCall("fetch_structure", <<>>, FALSE) }

DetectorBecomes(d) ==
    /\ threshold' = d.threshold
    /\ recent' = d.recent
    /\ recent_families' = d.recent_families
    /\ recent_intents' = d.recent_intents

AddCall(call) ==
    /\ Len(fed) < MaxDetectorCalls
    /\ DetectorBecomes(add_call(DetectorState, call)[1])
    /\ fed' = Append(fed, call)
    /\ reports' = Append(reports, add_call(DetectorState, call)[2])
    /\ UNCHANGED <<rt_vars, store_vars>>

Clear ==
    /\ fed # <<>>
    /\ DetectorBecomes(clear(DetectorState))
    /\ fed' = <<>>
    /\ reports' = <<>>
    /\ UNCHANGED <<rt_vars, store_vars>>

\* what the assistant says before it acts: two plans that normalize to 20 characters
\* or more, a short one, and one that normalizes to the empty text
UtteranceLoad ==
    <<"L", "o", "a", "d", " ", "t", "h", "e", " ", "l", "i", "g", "a", "n", "d", " ", " ",
    "a", "n", "d", " ", "z", "o", "o", "m", ",", " ", "o", "k", "!">>
UtteranceHide ==
    <<"H", "i", "d", "e", " ", "e", "v", "e", "r", "y", "t", "h", "i", "n", "g", ",", " ",
    "t", "h", "e", "n", " ", "z", "o", "o", "m", ".">>
UtteranceOk == <<"o", "k", ".">>
UtterancePunctuation == <<" ", "?", "!", " ">>

Utterances == {UtteranceLoad, UtteranceHide, UtteranceOk, UtterancePunctuation}

AddAssistantIntent(assistant_text) ==
    /\ Len(fed) < MaxIntentCalls
    /\ DetectorBecomes(add_assistant_intent(DetectorState, assistant_text)[1])
    /\ fed' = Append(fed, assistant_text)
    /\ reports' = Append(reports, add_assistant_intent(DetectorState, assistant_text)[2])
    /\ UNCHANGED <<rt_vars, store_vars>>

\* a detector made with the constructor argument th
InitDetectorWith(th) ==
    /\ threshold = NewDetector(th).threshold
    /\ recent = NewDetector(th).recent
    /\ recent_families = NewDetector(th).recent_families
    /\ recent_intents = NewDetector(th).recent_intents
    /\ fed = <<>>
    /\ reports = <<>>

\* AiRuntime.__init__ (runtime.py:69-121) in a process whose kill switch is one of flags
InitRuntimeFrom(events, max_chars, flags, capacities, histories) ==
    /\ api_key_set \in BOOLEAN
    /\ disable_flag \in flags
    /\ enabled = (api_key_set /\ ~disable_flag)
    /\ cli_commands = <<>>
    /\ drained = <<>>
    /\ emit_log = <<>>
    /\ appender = [t \in HistoryThreads |-> IdleAppender]
    /\ tool_result_max_chars = max_chars
    /\ input_mode = "ai"
    /\ busy = FALSE
    /\ cancel_event = FALSE
    /\ sdk_session_id = NoSession
    /\ history \in histories
    /\ ui_events = <<>>
    /\ ui_compaction_notice_sent = FALSE
    /\ ui_max_events \in capacities
    /\ stream_had_output = FALSE
    /\ stream_full_text = <<>>
    /\ screenshot_validate_required = TRUE
    /\ final_answer_enabled = TRUE
    /\ wpc = [t \in Threads |-> "unborn"]
    /\ worker = [t \in Threads |-> IdleWorker]
    /\ threads_started = 0
    /\ ui_pc = "idle"
    /\ env_left = events

InitRuntimeFor(events, max_chars, flags, capacities) ==
    InitRuntimeFrom(events, max_chars, flags, capacities, {<<>>})

InitRuntimeIn(events, max_chars, flags) ==
    InitRuntimeFor(events, max_chars, flags, {DefaultUiMaxEvents})

InitRuntimeOf(events, max_chars) == InitRuntimeIn(events, max_chars, {FALSE})

InitRuntimeWith(events) == InitRuntimeOf(events, ToolResultMaxChars)

InitRuntime == InitRuntimeWith(MaxEnvEvents)

InitStoreWith(ops) ==
    /\ fs_chats = [c \in Chats |-> NoDir]
    /\ fs_index = <<>>
    /\ current_chat_id = NoChat
    /\ manifest = NoManifest
    /\ pending_event_lines = <<>>
    /\ manifest_dirty = FALSE
    /\ index_dirty = FALSE
    /\ flush_due_at = NoDeadline
    /\ scene_dirty = FALSE
    /\ checkpoint_due_at = NoDeadline
    /\ index_latest = <<>>
    /\ clock = 0
    /\ chats_created = 0
    /\ ops_left = ops
    /\ last_op = [op |-> "init", chat_id |-> NoChat, base |-> 0, added |-> 0, pending |-> 0,
                  count |-> 0, value |-> 0, listed |-> <<>>, invoked |-> FALSE,
                  save_ok |-> FALSE, retry |-> FALSE, error |-> NoError]
    /\ removed_chats = {}

InitStore == InitStoreWith(MaxStoreOps)

InitDetector == InitDetectorWith(DefaultThreshold)

Init == InitRuntime /\ InitStore /\ InitDetector

\* the store as the chat list of the application uses it, for longer than MaxStoreOps
\* calls; the runtime is at rest
InitListing == InitRuntime /\ enabled /\ InitStoreWith(MaxListingOps) /\ InitDetector

WorkerStep(t) ==
    \/ AgentWorkerStart(t)
    \/ AfterSdkTurn(t)
    \/ AfterRetryRefused(t)
    \/ InterpretResult(t)
    \/ ReleaseBusy(t)
    \/ ClearCancel(t)

\* the Agent Client and the host application act on behalf of worker t
EnvironmentStep(t) ==
    \/ \E piece \in StreamPieces : SdkTextChunk(t, piece)
    \/ \E command \in ModelCommands : SdkToolCall(t, "run_pymol_command", command)
    \/ SdkToolCall(t, "capture_viewer_snapshot", <<>>)
    \/ \E outcome \in HostOutcomes : ToolReturn(t, outcome)
    \/ \E result \in SdkResults : SdkReturn(t, result)
    \/ \E outcome \in HostOutcomes : AutoToolReturn(t, outcome)

NextRuntime ==
    \/ \E text \in TypedInputs : HandleTypedInput(text)
    \/ RequestCancelSet
    \/ RequestCancelNotify
    \/ \E t \in Threads : WorkerStep(t)
    \/ \E t \in Threads : EnvironmentStep(t)

NextStore ==
    \/ CreateChat
    \/ \E chat_id \in Chats : OpenChat(chat_id)
    \/ \E chat_id \in Chats, events \in EventBatches : AppendEvents(chat_id, events)
    \/ FlushNow
    \/ \E chat_id \in Chats : DeleteChat(chat_id)
    \/ \E count \in 1..MaxChats : DeleteOldest(count)
    \/ Reopen
    \/ Tick

SpecRuntime == Init /\ [][NextRuntime]_vars

SpecStore == Init /\ [][NextStore]_vars

NextListing ==
    \/ CreateChat
    \/ \E events \in ListingBatches : AppendEvents(current_chat_id, events)
    \/ FlushNow
    \/ \E count \in OldestCounts : DeleteOldest(count)
    \/ Tick

SpecListing == InitListing /\ [][NextListing]_vars

\* the store as the session checkpointing of the application uses it
InitCheckpoint == InitRuntime /\ enabled /\ InitStoreWith(MaxCheckpointOps) /\ InitDetector

NextCheckpoint ==
    \/ CreateChat
    \/ \E chat_id \in Chats : OpenChat(chat_id)
    \/ \E events \in EventBatches : AppendEvents(current_chat_id, events)
    \/ \E chat_id \in Chats : MarkSceneDirty(chat_id)
    \/ \E chat_id \in Chats : ScheduleCheckpoint(chat_id)
    \/ \E save \in SaveOutcomes : RunCheckpoint(save)
    \/ \E save \in SaveOutcomes : Pump(save)
    \/ Tick

SpecCheckpoint == InitCheckpoint /\ [][NextCheckpoint]_vars

\* the session states the application persists: none, and one with an upper-case mode
RuntimeStates ==
    {SessionPayload(<<>>, TRUE, <<>>, <<>>, FALSE, FALSE),
     SessionPayload(<<"C", "L", "I">>, TRUE, <<StoredMessage(1)>>, <<"s", "1">>, TRUE, FALSE)}

\* the store as the application uses it around draft chats: chats are created, opened,
\* given a runtime state and checkpointed before and after their first event
InitDrafts == InitRuntime /\ enabled /\ InitStoreWith(MaxDraftOps) /\ InitDetector

NextDrafts ==
    \/ CreateChat
    \/ \E chat_id \in Chats : OpenChat(chat_id)
    \/ \E events \in EventBatches : AppendEvents(current_chat_id, events)
    \/ \E chat_id \in Chats, state \in RuntimeStates : SetRuntimeState(chat_id, state)
    \/ MarkSceneDirty(current_chat_id)
    \/ \E save \in SaveOutcomes : RunCheckpoint(save)
    \/ FlushNow
    \/ Reopen
    \/ Tick

SpecDrafts == InitDrafts /\ [][NextDrafts]_vars

\* the store as the application uses it to read chats back, on files that a crash or
\* another program may have changed
InitLoad == InitRuntime /\ enabled /\ InitStoreWith(MaxLoadOps) /\ InitDetector

NextLoad ==
    \/ CreateChat
    \/ \E events \in EventBatches : AppendEvents(current_chat_id, events)
    \/ \E chat_id \in Chats, change \in FileChanges : FilesChange(chat_id, change)
    \/ \E chat_id \in Chats \cup {NoChat} : LoadChat(chat_id)

SpecLoad == InitLoad /\ [][NextLoad]_vars

\* the store of an application that can die while it flushes and is started again
InitCrash == InitRuntime /\ enabled /\ InitStoreWith(MaxCrashOps) /\ InitDetector

NextCrash ==
    \/ CreateChat
    \/ \E chat_id \in Chats : OpenChat(chat_id)
    \/ \E events \in EventBatches : AppendEvents(current_chat_id, events)
    \/ FlushNow
    \/ CrashInFlush

SpecCrash == InitCrash /\ [][NextCrash]_vars

\* a detector made with any threshold and fed tool calls
InitDetectorAny ==
    /\ InitRuntime /\ enabled /\ InitStoreWith(0)
    /\ \E th \in 0..MaxThreshold : InitDetectorWith(th)

NextDetector ==
    \/ \E call \in DetectorCalls : AddCall(call)
    \/ Clear

SpecDetector == InitDetectorAny /\ [][NextDetector]_vars

\* the runtime with a model that answers in streamed text and calls no tool
InitStream == InitRuntimeWith(MaxStreamEvents) /\ enabled /\ InitStoreWith(0) /\ InitDetector

NextStream ==
    \/ /\ threads_started < MaxStreamTurns
       /\ \E text \in TypedInputs : HandleTypedInput(text)
    \/ RequestCancelSet
    \/ RequestCancelNotify
    \/ \E t \in Threads :
          \/ AgentWorkerStart(t)
          \/ AfterSdkTurn(t)
          \/ InterpretResult(t)
          \/ ReleaseBusy(t)
          \/ ClearCancel(t)
          \/ \E piece \in StreamPieces : SdkTextChunk(t, piece)
          \/ SdkReturn(t, PlainAnswer)

SpecStream == InitStream /\ [][NextStream]_vars

\* the event queue between the threads that emit and the UI thread that drains, for
\* every small capacity (0: no capacity)
QueueEvents ==
    {UiEvent("user", CmdZoom), UiEvent("ai", <<"a">>),
     ToolResultEvent(<<"r">>, TRUE, "run_pymol_command", <<"t", "1">>, CmdZoom, NoResultJson),
     UiEvent("reasoning", <<"z">>), UiEvent("system", <<"s">>),
     UiEvent("system", <<"Validation required:">>)}

InitQueue ==
    /\ InitRuntimeFor(MaxQueueEmits, ToolResultMaxChars, {FALSE}, 0..MaxCapacity)
    /\ enabled
    /\ InitStoreWith(0)
    /\ InitDetector

NextQueue ==
    \/ \E event \in QueueEvents : EmitUiEvent(event)
    \/ \E limit \in DrainLimits : DrainUiEvents(TRUE, limit)
    \/ DrainUiEvents(FALSE, 0)

SpecQueue == InitQueue /\ [][NextQueue]_vars

\* a detector made with any threshold and fed what the assistant says
InitIntents ==
    /\ InitRuntime /\ enabled /\ InitStoreWith(0)
    /\ \E th \in 0..MaxIntentThreshold : InitDetectorWith(th)

NextIntents ==
    \/ \E assistant_text \in Utterances : AddAssistantIntent(assistant_text)
    \/ Clear

SpecIntents == InitIntents /\ [][NextIntents]_vars

\* a stored session state that carries a resumption token
RestoredSession == SessionPayload(<<"a", "i">>, TRUE, <<>>, <<"s", "1">>, FALSE, FALSE)

\* one turn of a runtime whose session was restored: the model calls tools, the Agent
\* Client may refuse the resumption token and the turn is then run again
InitRetry == InitRuntimeWith(MaxRetryEvents) /\ enabled /\ InitStoreWith(0) /\ InitDetector

NextRetry ==
    \/ /\ threads_started = 0
       /\ sdk_session_id = NoSession
       /\ ImportSessionState(RestoredSession, FALSE)
    \/ /\ threads_started < 1
       /\ \E text \in TypedInputs : HandleTypedInput(text)
    \/ \E t \in Threads :
          \/ AgentWorkerStart(t)
          \/ AfterSdkTurn(t)
          \/ InterpretResult(t)
          \/ ReleaseBusy(t)
          \/ ClearCancel(t)
          \/ \E command \in ModelCommands : SdkToolCall(t, "run_pymol_command", command)
          \/ SdkToolCall(t, "capture_viewer_snapshot", <<>>)
          \/ \E outcome \in {"ok", "fail"} : ToolReturn(t, outcome)
          \/ \E outcome \in {"ok", "fail"} : AutoToolReturn(t, outcome)
          \/ SdkReturn(t, PlainAnswer)
          \/ SdkReturn(t, SdkResult(<<>>, NoSession, TRUE, "resume_invalid"))

SpecRetry == InitRetry /\ [][NextRetry]_vars

\* the history of a runtime whose session was restored from a stored history longer
\* than the runtime keeps (import_session_state, line 219)
RestoredHistory == LastN(LongHistory, HistoryMax)

\* a message thread t appends, told apart by what is left to do
AppendedMessage(t) ==
    HistoryMessage(IF t = "worker" THEN "assistant" ELSE "user", "", NoId,
                   <<t, ToString(env_left)>>)

\* the agent worker and the caller thread append to history at the same time: the worker
\* during a turn, the caller for CLI commands (_execute_cli_command, line 561)
InitHistory ==
    /\ InitRuntimeFrom(MaxHistoryAppends, ToolResultMaxChars, {FALSE}, {DefaultUiMaxEvents},
                       {<<>>, RestoredHistory})
    /\ enabled
    /\ InitStoreWith(0)
    /\ InitDetector

NextHistory ==
    \E t \in HistoryThreads :
        \/ AppendBegin(t, AppendedMessage(t))
        \/ AppendCall(t)
        \/ AppendLoad(t)
        \/ AppendTest(t)
        \/ AppendSlice(t)
        \/ AppendStore(t)

SpecHistory == InitHistory /\ [][NextHistory]_vars

\* what the user types in the control specification: a prompt or command, a blank line
ControlTexts == {CmdZoom, <<" ">>}

TextAi == <<"/", "a", "i">>
TextAiOn == <<"/", "a", "i", " ", "o", "n">>
TextAiOff == <<"/", "a", "i", " ", "o", "f", "f">>
TextAiClear == <<"/", "a", "i", " ", "c", "l", "e", "a", "r">>
TextCli == <<"/", "c", "l", "i">>
TextCliOff == <<"/", "c", "l", "i", " ", "o", "f", "f">>
TextCliLoad == <<"/", "c", "l", "i", " ">> \o CmdLoad
TextPaddedCliLoad == <<" ">> \o TextCliLoad

\* the control inputs the user types
ControlInputs ==
    {TextAi, TextAiOn, TextAiOff, TextAiClear, TextCli, TextCliOff, TextCliLoad,
     TextPaddedCliLoad}

\* the runtime as its caller drives it: typed inputs, control inputs, the session state,
\* with a model that answers in plain text
InitControl ==
    /\ InitRuntimeIn(MaxControlEvents, ToolResultMaxChars, BOOLEAN)
    /\ InitStoreWith(0)
    /\ InitDetector

NextControl ==
    \/ \E text \in ControlTexts : HandleTypedInput(text)
    \/ \E text \in ControlInputs : HandleControlInput(text)
    \/ \E emit_notice \in BOOLEAN : EnsureAiDefaultMode(emit_notice)
    \/ \E emit_notice \in BOOLEAN : ClearSession(emit_notice)
    \/ \E payload \in ImportPayloads, apply_model \in BOOLEAN :
          ImportSessionState(payload, apply_model)
    \/ \E key, flag \in BOOLEAN : EnvironmentChanges(key, flag)
    \/ \E t \in Threads :
          \/ AgentWorkerStart(t)
          \/ AfterSdkTurn(t)
          \/ InterpretResult(t)
          \/ ReleaseBusy(t)
          \/ ClearCancel(t)
          \/ SdkReturn(t, PlainAnswer)

SpecControl == InitControl /\ [][NextControl]_vars

\* the runtime with any budget for tool results, in a turn that calls tools
InitToolResults ==
    /\ \E max_chars \in 0..MaxBudget : InitRuntimeOf(MaxToolEvents, max_chars)
    /\ enabled
    /\ InitStoreWith(0)
    /\ InitDetector

NextToolResults ==
    \/ /\ threads_started < 1
       /\ \E text \in TypedInputs : HandleTypedInput(text)
    \/ \E t \in Threads :
          \/ AgentWorkerStart(t)
          \/ AfterSdkTurn(t)
          \/ InterpretResult(t)
          \/ ReleaseBusy(t)
          \/ ClearCancel(t)
          \/ \E command \in ModelCommands : SdkToolCall(t, "run_pymol_command", command)
          \/ SdkToolCall(t, "capture_viewer_snapshot", <<>>)
          \/ \E outcome \in HostOutcomes : ToolReturn(t, outcome)
          \/ SdkReturn(t, PlainAnswer)
          \/ \E outcome \in HostOutcomes : AutoToolReturn(t, outcome)

SpecToolResults == InitToolResults /\ [][NextToolResults]_vars

\* the Agent Client call and the host calls a worker waits for return
EnvironmentReturns(t) ==
    \/ \E result \in SdkResults : SdkReturn(t, result)
    \/ \E outcome \in HostOutcomes : ToolReturn(t, outcome)
    \/ \E outcome \in HostOutcomes : AutoToolReturn(t, outcome)

\* some worker thread takes a step, or a call some worker waits for returns
Progress == \E t \in Threads : WorkerStep(t) \/ EnvironmentReturns(t)

\* the runtime with worker threads that keep running and calls that return
SpecRuntimeFair == SpecRuntime /\ WF_vars(Progress)

----------------------------------------------------------------------------
\* Properties of the runtime.

\* worker t has been admitted and has not released _busy yet
InFlight(t) == wpc[t] \notin {"unborn", "clear_cancel", "done"}

\* the thread of worker t exists and has not ended
ThreadAlive(t) == wpc[t] \notin {"unborn", "done"}

\* this step is handle_typed_input queueing the user's text
Submitted == Len(ui_events') > Len(ui_events) /\ ui_events'[Len(ui_events) + 1].role = "user"

NewEvents == SubSeq(ui_events', Len(ui_events) + 1, Len(ui_events'))

AiSubmitted == Submitted /\ enabled /\ input_mode = "ai"

RejectedWhileBusy ==
    (AiSubmitted /\ busy) =>
        /\ threads_started' = threads_started
        /\ wpc' = wpc
        /\ NewEvents = <<NewEvents[1], UiEvent("system", MsgAlreadyInProgress)>>

OneWorkerInFlight ==
    /\ Cardinality({t \in Threads : InFlight(t)}) <= 1
    /\ busy <=> \E t \in Threads : InFlight(t)

\* C1, as amended: while _busy is true an AI-mode submission starts no worker thread and
\* queues, after the user's text, exactly one system event "request already in progress";
\* at most one worker is between its admission and its release of _busy, and _busy is
\* true exactly while there is one.
C1_RejectedWhileBusy == [](OneWorkerInFlight) /\ [][RejectedWhileBusy]_vars

\* C1, witness: a submission was rejected during the turn of a worker still in flight.
C1_RejectionSeen ==
    \E t \in Threads :
        /\ InFlight(t)
        /\ \E i \in 1..Len(TurnEvents(t)) : TurnEvents(t)[i].text = MsgAlreadyInProgress

\* C1, as stated: at most one agent worker thread runs at any time.
C1_OneWorkerThreadRuns == Cardinality({t \in Threads : ThreadAlive(t)}) <= 1

ReleasesBusy ==
    \A t \in Threads : (wpc[t] = "finally" /\ wpc'[t] # "finally") => ~busy'

AdmittedWhenIdle ==
    (AiSubmitted /\ \A t \in Threads : ~InFlight(t)) =>
        /\ threads_started' = threads_started + 1
        /\ wpc'[threads_started + 1] = "start"
        /\ busy'

\* C2: provided the calls a worker waits for return, every worker that is started ends
\* (the user submits finitely many inputs: from some point on every started worker's
\* thread has ended and _busy is false); a worker leaving its try block, however the turn
\* ended, sets _busy to false; an AI-mode submission made when no worker is in flight is
\* admitted.
C2_WorkerTerminatesIdle ==
    /\ <>[](~busy /\ \A t \in Threads : ~ThreadAlive(t))
    /\ [][ReleasesBusy /\ AdmittedWhenIdle]_vars

\* C2, witness: a worker ended by an exception has terminated and a later submission
\* was admitted.
C2_AdmittedAfterException ==
    \E t, u \in Threads :
        /\ wpc[t] = "done"
        /\ worker[t].ended = "exception"
        /\ wpc[u] # "unborn"
        /\ worker[u].turn_start > worker[t].turn_start

\* the tool results worker t's turn has produced (the command line's results carry ids
\* of their own)
IsWorkerToolResult(e) ==
    /\ e.role = "tool_result"
    /\ e.tool_call_id # NoId
    /\ e.tool_call_id[1] # "cli"

IsStateChangingRun(e) ==
    /\ IsWorkerToolResult(e)
    /\ e.tool_name = "run_pymol_command"
    /\ _is_state_changing_command(e.tool_command)

IsSnapshot(e) == IsWorkerToolResult(e) /\ e.tool_name = "capture_viewer_snapshot"

IsAutoSnapshot(e) == IsSnapshot(e) /\ e.tool_call_id = AutoSnapshotTool.id

\* worker t has left its try block and the turn completed: no client error, no
\* cancellation, no exception
TurnCompleted(t) == wpc[t] = "finally" /\ worker[t].ended = "success"

Positions(t, Test(_)) == {i \in 1..Len(TurnEvents(t)) : Test(TurnEvents(t)[i])}

\* C4, as stated: with the validation policy enabled, in a turn that completes without
\* client error or cancellation every state-changing run_pymol_command result is followed
\* by a capture_viewer_snapshot result before the worker finishes.
C4_SnapshotFollowsEveryChange ==
    \A t \in Threads :
        (TurnCompleted(t) /\ screenshot_validate_required) =>
            \A i \in Positions(t, IsStateChangingRun) :
                \E j \in Positions(t, IsSnapshot) : j > i

\* the turn of worker t executed one state-changing command and the model called no
\* snapshot
OneChangeNoModelSnapshot(t) ==
    /\ Cardinality(Positions(t, IsStateChangingRun)) = 1
    /\ Positions(t, IsSnapshot) \subseteq Positions(t, IsAutoSnapshot)

IsFinalAiEvent(e) == e.role = "ai" /\ ~e.stream_chunk

IsAiEvent(e) == e.role = "ai"

\* C5, as amended: with the validation policy enabled, a completed turn with exactly one
\* state-changing command and no snapshot call of the model holds exactly one
\* capture_viewer_snapshot result, the runtime's own, after the command's result; the
\* AI event carrying the final text comes after that snapshot result, while the chunk
\* events of a streamed answer were queued during the Agent Client call.
C5_AutoSnapshotBeforeFinalText ==
    \A t \in Threads :
        (TurnCompleted(t) /\ screenshot_validate_required /\ OneChangeNoModelSnapshot(t)) =>
            /\ Cardinality(Positions(t, IsSnapshot)) = 1
            /\ \A i \in Positions(t, IsStateChangingRun), j \in Positions(t, IsSnapshot) :
                  /\ i < j
                  /\ \A k \in Positions(t, IsFinalAiEvent) : j < k
                  /\ \A k \in Positions(t, IsAiEvent) : k < j => TurnEvents(t)[k].stream_chunk

\* C5, witness: a completed turn with one zoom, the runtime's snapshot and the final text
\* after it.
C5_ZoomThenAutoSnapshotThenText ==
    \E t \in Threads :
        /\ TurnCompleted(t)
        /\ OneChangeNoModelSnapshot(t)
        /\ Positions(t, IsAutoSnapshot) # {}
        /\ Positions(t, IsFinalAiEvent) # {}

\* C5, as stated: in such a turn the snapshot result precedes every AI event carrying the
\* answer, streamed or final.
C5_SnapshotBeforeEveryAiEvent ==
    \A t \in Threads :
        (TurnCompleted(t) /\ screenshot_validate_required /\ OneChangeNoModelSnapshot(t)) =>
            /\ Cardinality(Positions(t, IsSnapshot)) = 1
            /\ \A j \in Positions(t, IsSnapshot), k \in Positions(t, IsAiEvent) : j < k

IsRequestCancelled(e) == e.role = "system" /\ e.text = MsgRequestCancelled

IsUnexpectedError(e) == e.role = "error" /\ e.text = MsgUnexpectedError

\* C6, as stated: a turn for which request_cancel() was called while its worker was at
\* work, before any chunk of the turn was streamed, ends having queued "request
\* cancelled" and no "unexpected error".
C6_CancelledTurnSaysSo ==
    \A t \in Threads :
        (wpc[t] = "finally" /\ worker[t].cancel_requested) =>
            /\ Positions(t, IsRequestCancelled) # {}
            /\ Positions(t, IsUnexpectedError) = {}

\* this step dispatches a tool call of worker t to the host
Dispatches(t) == wpc[t] # wpc'[t] /\ wpc'[t] \in {"tool", "auto_tool"}

\* C7, as stated: no tool call, the runtime's automatic validation call included, is
\* dispatched to the host once the cancel flag is set.
C7_NoDispatchAfterCancel ==
    [][\A t \in Threads : Dispatches(t) => ~cancel_event]_vars

\* this step is worker t calling run_turn for the second time in its turn
Retries(t) == Len(worker[t].calls) = 1 /\ Len(worker'[t].calls) = 2

RetryOnlyOnInvalidResume ==
    \A t \in Threads :
        Retries(t) =>
            /\ worker[t].result.error_class = "resume_invalid"
            /\ sdk_session_id # NoSession
            /\ ~cancel_event
            /\ sdk_session_id' = NoSession
            /\ worker'[t].calls[2] =
                   [resume_session_id |-> NoSession, include_history_context |-> TRUE]

\* worker t has left its try block after a retry whose result carries an error text
RetryFailed(t) == wpc[t] = "finally" /\ Len(worker[t].calls) = 2 /\ worker[t].result.error

IsErrorOf(t, e) == e.role = "error" /\ e.text = ErrorText(worker[t].result)

----------------------------------------------------------------------------
\* Properties of the chat store.

\* the chat's message_count as the store holds it: in memory for the current chat, in
\* manifest.json for another chat
MessageCount(c) ==
    IF current_chat_id = c THEN manifest.message_count
    ELSE fs_chats[c].manifest.message_count

ChatKnown(c) == current_chat_id = c \/ fs_chats[c].exists

CountsAgree ==
    current_chat_id # NoChat =>
        LET dir == fs_chats[current_chat_id]
        IN  /\ last_op.op \in {"append_events", "flush_now"} =>
                  manifest.message_count = last_op.base + last_op.added
            /\ Len(dir.events) + Len(pending_event_lines) = manifest.message_count
            /\ last_op.op = "flush_now" =>
                  /\ pending_event_lines = <<>>
                  /\ dir.manifest.message_count = manifest.message_count
                  /\ Len(dir.events) = manifest.message_count

NeverDecreases ==
    \A c \in Chats :
        (ChatKnown(c) /\ ChatKnown(c)') => MessageCount(c)' >= MessageCount(c)

\* C3: for the current chat, after append_events calls totalling N events the in-memory
\* message_count is the count before those calls plus N, and after the flush_now that
\* follows manifest.json holds the same count and events.jsonl has that many lines; no
\* store operation lowers the message_count of a chat.
C3_MessageCountTracksAppends == [](CountsAgree) /\ [][NeverDecreases]_vars

\* C3, witness: a flush_now after append_events calls that added events to a chat that
\* already held some.
C3_FlushAfterTwoAppends ==
    /\ last_op.op = "flush_now"
    /\ current_chat_id # NoChat
    /\ last_op.base > 0
    /\ last_op.added > 0

ListQueries == {<<>>, <<"h">>}
ListOffsets == {0, 1}
ListLimits == {1, 50}

\* chat c is a row of some list_chats result
Listed(c) ==
    \E query \in ListQueries, offset \in ListOffsets, limit \in ListLimits :
        LET rows == list_chats(index_latest, query, offset, limit)
        IN  \E i \in DOMAIN rows : rows[i].chat_id = c

\* a row of index.jsonl lists chat c
HasIndexRow(c) ==
    \E i \in DOMAIN fs_index : fs_index[i].chat_id = c /\ ~fs_index[i].deleted

\* C9: when delete_chat(id) has returned, no list_chats result has a row for id and
\* count_chats() counts the other listed chats only.
C9_DeletedChatUnlisted ==
    last_op.op = "delete_chat" =>
        /\ ~Listed(last_op.chat_id)
        /\ last_op.chat_id \notin DictKeys(index_latest)
        /\ count_chats(index_latest) =
               Cardinality(DictKeys(index_latest) \ {last_op.chat_id})

\* C9, witness: delete_chat returned for the current chat, which had unflushed events
\* and a row in index.jsonl.
C9_DeletedWithPendingEvents ==
    /\ last_op.op = "delete_chat"
    /\ last_op.pending > 0
    /\ HasIndexRow(last_op.chat_id)

\* C10, as stated: after close() and a new AiChatStore on the same root directory, no
\* chat removed by delete_chat or delete_oldest (and not opened since) is listed or
\* counted.
C10_RemovedChatStaysUnlisted ==
    last_op.op = "reopen" =>
        \A c \in removed_chats : ~Listed(c) /\ c \notin DictKeys(index_latest)

\* the rows of the listing d that are no longer in the listing
DeletedRows(d) == SelectSeq(d, LAMBDA row : row.chat_id \notin DictKeys(index_latest))

\* C11: when delete_oldest(k) has returned, it has returned min(k, count_chats()) for
\* the count_chats() of before the call, count_chats() is lower by that number, the
\* chats no longer listed are that many chats that were listed, the others are listed
\* as before, and no chat still listed has an updated_at smaller than that of a deleted
\* chat.
C11_DeleteOldestDeletesOldest ==
    last_op.op = "delete_oldest" =>
        LET before == last_op.listed
            deleted == DeletedRows(before)
        IN  /\ last_op.value = Min(last_op.count, count_chats(before))
            /\ count_chats(index_latest) = count_chats(before) - last_op.value
            /\ Len(deleted) = last_op.value
            /\ index_latest = SelectSeq(before, LAMBDA row : row.chat_id \in DictKeys(index_latest))
            /\ \A i \in DOMAIN index_latest, j \in DOMAIN deleted :
                  index_latest[i].updated_at >= deleted[j].updated_at

\* C11, witness: delete_oldest(1) returned 1 with two chats listed, and deleted the one
\* whose updated_at was smaller.
C11_OlderOfTwoDeleted ==
    /\ last_op.op = "delete_oldest"
    /\ last_op.count = 1
    /\ last_op.value = 1
    /\ Len(last_op.listed) = 2
    /\ Len(index_latest) = 1
    /\ \E j \in DOMAIN last_op.listed :
          last_op.listed[j].updated_at < index_latest[1].updated_at

\* the page sizes and the queries of the chat list
PageSizes == {1, 2, 3}
SearchQueries == {<<"H", "i">>, <<"h", "i", " ">>, <<"z">>, <<" ">>}
QueryPages == {[offset |-> 0, limit |-> 50], [offset |-> 1, limit |-> 1]}

\* the whole listing for the empty query
AllListed == list_chats(index_latest, <<>>, 0, Len(index_latest))

\* rows[from + 1 .. from + size], as far as rows goes
PageOf(rows, from, size) == SubSeq(rows, from + 1, Min(from + size, Len(rows)))

RECURSIVE ConcatPages(_, _)
\* the pages of size P at offsets offset, offset + P, ... up to the first empty page
ConcatPages(P, offset) ==
    LET page == list_chats(index_latest, <<>>, offset, P)
    IN  IF page = <<>> THEN <<>> ELSE page \o ConcatPages(P, offset + P)

\* text holds needle, letter case aside
HoldsIgnoringCase(text, needle) ==
    \E i \in 0..(Len(text) - Len(needle)) :
        \A j \in 1..Len(needle) : LowerChar(text[i + j]) = LowerChar(needle[j])

RowHolds(row, needle) ==
    HoldsIgnoringCase(row.title, needle) \/ HoldsIgnoringCase(row.preview, needle)

IdsOf(rows) == {rows[i].chat_id : i \in DOMAIN rows}

PagesRebuildListing ==
    LET listed == AllListed
    IN  /\ \A i, j \in DOMAIN listed :
              i < j => listed[i].updated_at >= listed[j].updated_at
        /\ \A i, j \in DOMAIN listed : listed[i].chat_id = listed[j].chat_id => i = j
        /\ \A i \in DOMAIN listed : listed[i].message_count > 0
        /\ \A i \in DOMAIN listed :
              \E j \in DOMAIN index_latest : index_latest[j] = listed[i]
        /\ IdsOf(listed) = DictKeys(index_latest)
        /\ \A P \in PageSizes : ConcatPages(P, 0) = listed

\* C12, as amended: list_chats with an empty query returns rows in non-increasing
\* updated_at order; for a page size P >= 1 the pages at offsets 0, P, 2P, ... hold every
\* chat of the index in memory (the chats flushed with message_count > 0 and not
\* deleted) exactly once, and no chat with message_count = 0; with a query that is not
\* blank the page returned is the page, by offset and limit, of the listed rows whose
\* title or preview holds the query stripped of surrounding whitespace, letter case
\* aside; a blank query lists as the empty one does.
C12_PagesRebuildListing ==
    /\ PagesRebuildListing
    /\ LET listed == AllListed
       IN  \A query \in SearchQueries, page \in QueryPages :
              list_chats(index_latest, query, page.offset, page.limit) =
                  PageOf(IF Strip(query) = <<>> THEN listed
                         ELSE SelectSeq(listed, LAMBDA row : RowHolds(row, Strip(query))),
                         page.offset, page.limit)

\* C12, witness: two chats are listed, the later-updated one first, and the query "Hi"
\* finds one of them only.
C12_TwoListedOneFound ==
    /\ Len(AllListed) = 2
    /\ AllListed[1].updated_at > AllListed[2].updated_at
    /\ Len(list_chats(index_latest, <<"H", "i">>, 0, 50)) = 1
    /\ Len(ConcatPages(1, 0)) = 2

\* C12, as stated: the pages hold the current chat once it has a message, and a query
\* that is not empty returns exactly the listed rows whose title or preview holds the
\* query as given, letter case aside.
C12_ListsEveryChatWithMessages ==
    /\ (current_chat_id # NoChat /\ manifest.message_count > 0) =>
           \A P \in PageSizes : current_chat_id \in IdsOf(ConcatPages(P, 0))
    /\ \A query \in SearchQueries :
          list_chats(index_latest, query, 0, 50) =
              SelectSeq(AllListed, LAMBDA row : RowHolds(row, query))

\* this step is a run_checkpoint or pump call that called save_callback
SaveAttempted ==
    /\ ops_left' < ops_left
    /\ last_op'.op \in {"run_checkpoint", "pump"}
    /\ last_op'.invoked

\* the manifest in memory is the one in the current chat's manifest.json
ManifestPersisted ==
    /\ ~manifest_dirty
    /\ fs_chats[current_chat_id].manifest = manifest

FailedSaveKeepsDirty ==
    (SaveAttempted /\ ~last_op'.save_ok) =>
        /\ ~manifest'.last_pse_save_ok
        /\ manifest'.last_pse_error # NoError
        /\ last_op'.error # <<>> => manifest'.last_pse_error = last_op'.error
        /\ manifest'.has_session_pse = manifest.has_session_pse
        /\ ManifestPersisted'
        /\ scene_dirty'
        /\ checkpoint_due_at' = clock + CheckpointDelay

GoodSaveClearsDirty ==
    (SaveAttempted /\ last_op'.save_ok) =>
        /\ manifest'.last_pse_save_ok
        /\ manifest'.last_pse_error = NoError
        /\ manifest'.has_session_pse
        /\ ManifestPersisted'
        /\ ~scene_dirty'
        /\ checkpoint_due_at' = NoDeadline

PumpRetriesWhenDue ==
    (ops_left' < ops_left /\ last_op'.op = "pump"
        /\ checkpoint_due_at # NoDeadline /\ clock >= checkpoint_due_at) => last_op'.invoked

\* C13: a run_checkpoint or pump call whose save_callback raises returns, having
\* recorded last_pse_save_ok = false and an error text in the manifest and written the
\* manifest, with the scene still dirty and the checkpoint deadline set anew; a pump
\* called at or after a checkpoint deadline calls save_callback; a call whose
\* save_callback returns clears the dirty flag and the deadline and sets
\* has_session_pse.
C13_FailedCheckpointIsRetried ==
    /\ [][FailedSaveKeepsDirty /\ GoodSaveClearsDirty /\ PumpRetriesWhenDue]_vars
    /\ [](checkpoint_due_at # NoDeadline => (scene_dirty /\ current_chat_id # NoChat))

\* C13, witness: a pump called save_callback again after a failed save, and the save
\* succeeded.
C13_PumpRetriedAndSaved ==
    /\ last_op.op = "pump"
    /\ last_op.invoked
    /\ last_op.retry
    /\ last_op.save_ok
    /\ manifest.has_session_pse

\* every call fed to the detector since it was made or cleared is the same triple
FedIdentical == fed # <<>> /\ \A k \in 1..Len(fed) : fed[k] = fed[1]

\* calls 1..threshold-1 returned None and call threshold an exact_match report
SilentThenExactMatch ==
    \A k \in 1..Len(fed) :
        /\ k < threshold => reports[k] = NoReport
        /\ k = threshold => reports[k].loop_type = "exact_match"

\* C14: for every threshold >= 2, the same (tool name, arguments, validation flag)
\* triple of a tool other than capture_viewer_snapshot, fed to a fresh detector
\* threshold times, returns None on calls 1..threshold-1 and an exact_match report on
\* call threshold.
C14_IdenticalCallsReportExactMatch ==
    (FedIdentical /\ fed[1].tool_name # "capture_viewer_snapshot") => SilentThenExactMatch

\* C14, witness: the third identical run_pymol_command call to a detector of threshold
\* 3 returned exact_match after two calls that returned None.
C14_ThirdZoomReported ==
    /\ threshold = 3
    /\ FedIdentical
    /\ Len(fed) = 3
    /\ fed[1].tool_name = "run_pymol_command"
    /\ reports[1] = NoReport
    /\ reports[2] = NoReport
    /\ reports[3].loop_type = "exact_match"

\* C14 as stated: any identical triple, fed threshold times, is reported as exact_match
\* on call threshold.
C14_AnyIdenticalCallsReportExactMatch == FedIdentical => SilentThenExactMatch

\* the calls fed are of tools the detector records, and their command families
\* alternate between two families with no two adjacent calls of the same family
FamilyOf(call) == _command_family(call.tool_name, call.arguments)

FedAlternates ==
    /\ \A k \in 1..Len(fed) : fed[k].tool_name # "capture_viewer_snapshot"
    /\ Cardinality({FamilyOf(fed[k]) : k \in 1..Len(fed)}) = 2
    /\ \A k \in 2..Len(fed) : FamilyOf(fed[k]) # FamilyOf(fed[k - 1])
    /\ \A k \in 3..Len(fed) : FamilyOf(fed[k]) = FamilyOf(fed[k - 2])

OscillationReported ==
    \E k \in 1..Len(reports) : reports[k].loop_type = "command_family_oscillation"

\* C15: for every threshold >= 2, a sequence of threshold+1 calls that alternates
\* between two command families yields a command_family_oscillation report.
C15_AlternationReported ==
    (FedAlternates /\ Len(fed) = threshold + 1) => OscillationReported

\* for every threshold >= 3 the alternation is reported, on call threshold already
C15_AlternationReportedFromThree ==
    (FedAlternates /\ threshold >= 3 /\ Len(fed) >= threshold) =>
        reports[threshold].loop_type = "command_family_oscillation"

IsToolResult(e) == e.role = "tool_result"

\* the tool calls worker t has executed in its turn, in order, as add_call would get them
TurnToolCalls(t) ==
    LET results == SelectSeq(TurnEvents(t), IsToolResult)
    IN  [k \in 1..Len(results) |->
            ToolCall(results[k].tool_name, results[k].tool_command, FALSE)]

RECURSIVE ReportsOf(_, _)
\* what add_call returns for each of calls, fed in order to the detector d
ReportsOf(d, calls) ==
    IF calls = <<>> THEN <<>>
    ELSE <<add_call(d, Head(calls))[2]>> \o ReportsOf(add_call(d, Head(calls))[1], Tail(calls))

\* a Doom Loop Detector of the default threshold, fed the tool calls of worker t's turn,
\* has reported a loop
LoopDetected(t) ==
    /\ wpc[t] # "unborn"
    /\ \E k \in 1..Len(TurnToolCalls(t)) :
          ReportsOf(NewDetector(DefaultThreshold), TurnToolCalls(t))[k] # NoReport

\* C16: once the Doom Loop Detector, fed the tool calls of a turn, has made its first
\* detection, history holds a corrective system message.
C16_DetectionAddsCorrectiveMessage ==
    \A t \in Threads :
        LoopDetected(t) => \E i \in 1..Len(history) : history[i].role = "system"

\* the final assistant text of worker t's result (line 854)
FinalText(t) == Strip(worker[t].result.assistant_text)

\* worker t's turn ended without error or cancellation with a final assistant text
AnsweredTurn(t) == TurnCompleted(t) /\ FinalText(t) # <<>>

IsChunk(e) == e.role = "ai" /\ e.stream_chunk

IsWholeAnswer(e) == e.role = "ai" /\ ~e.stream_chunk

\* C17: in a turn that ends without error or cancellation with a non-empty final text,
\* either the text is emitted as the turn's one AI event and nothing was streamed, or
\* no such event is emitted and the chunks the Agent Client streamed were all
\* delivered; the text is the assistant message that history ends with.
C17_FinalTextReachesUserOnce ==
    \A t \in Threads :
        AnsweredTurn(t) =>
            /\ \/ /\ Cardinality(Positions(t, IsWholeAnswer)) = 1
                  /\ \A i \in Positions(t, IsWholeAnswer) : TurnEvents(t)[i].text = FinalText(t)
                  /\ Positions(t, IsChunk) = {}
               \/ /\ Positions(t, IsWholeAnswer) = {}
                  /\ Positions(t, IsChunk) # {}
                  /\ ~worker[t].chunk_dropped
            /\ history # <<>>
            /\ history[Len(history)] = HistoryMessage("assistant", "", NoId, FinalText(t))

IsError(e) == e.role = "error"

\* worker t is in its turn: admitted, and its finally block has not released _busy
InTurn(t) == wpc[t] \notin {"unborn", "clear_cancel", "done"}

\* the last result run_turn returned to worker t carries an error text of a class other
\* than cancelled
CarriesError(t) == worker[t].result.error /\ worker[t].result.error_class # "cancelled"

OneErrorEvent(t, Test(_)) ==
    /\ Cardinality(Positions(t, IsError)) = 1
    /\ \A i \in Positions(t, IsError) : Test(TurnEvents(t)[i])

\* C18: a turn emits at most one error event. A turn that ends on a client result with
\* an error text of a class other than cancelled, the cancel flag being clear at the
\* check before the result is interpreted, has emitted exactly one error event, with
\* that text, and no final-answer event; a turn that an exception reaching the worker's
\* except clause ended has emitted exactly one error event, "unexpected error: ...",
\* and the worker goes on to its finally block; a turn that ended as cancelled has
\* emitted no error event.
C18_OneErrorEventPerTurn ==
    \A t \in Threads :
        /\ InTurn(t) => Cardinality(Positions(t, IsError)) <= 1
        /\ wpc[t] = "finally" =>
              /\ worker[t].ended = "client_error" <=>
                    (CarriesError(t) /\ worker[t].ended \notin {"cancelled", "exception"})
              /\ worker[t].ended = "client_error" =>
                    /\ OneErrorEvent(t, LAMBDA e : IsErrorOf(t, e))
                    /\ Positions(t, IsWholeAnswer) = {}
              /\ worker[t].ended = "exception" => OneErrorEvent(t, IsUnexpectedError)
              /\ worker[t].ended = "cancelled" => Positions(t, IsError) = {}

\* C18, witness: a turn ended on an sdk_error result after a tool call, with the one
\* error event.
C18_ErrorResultReported ==
    \E t \in Threads :
        /\ wpc[t] = "finally"
        /\ worker[t].ended = "client_error"
        /\ worker[t].result.error_class = "sdk_error"
        /\ Positions(t, IsToolResult) # {}
        /\ OneErrorEvent(t, LAMBDA e : IsErrorOf(t, e))

\* C18 as stated: a client result carrying an error of a class other than cancelled
\* yields exactly one error event with that error's text.
C18_ErrorResultAlwaysReported ==
    \A t \in Threads :
        (wpc[t] = "finally" /\ CarriesError(t)) => OneErrorEvent(t, LAMBDA e : IsErrorOf(t, e))

\* the payload the tool function built for the tool_result event e
PayloadOf(e) == ToolPayload(e.ok = "true", e.tool_command)

\* what C19 says _tool_result_metadata_payload returns for payload
MetadataPayloadAsSpecified(payload, returned) ==
    LET serialized == _tool_result_content(payload)
    IN  IF Len(serialized) <= tool_result_max_chars
        THEN returned = KeptPayload(payload)
        ELSE /\ returned.truncated
             /\ returned.payload = NoPayload
             /\ Len(returned.preview) = tool_result_max_chars + Len(TruncationMark)
             /\ SubSeq(returned.preview, 1, tool_result_max_chars)
                    = SubSeq(serialized, 1, tool_result_max_chars)
             /\ SubSeq(returned.preview, tool_result_max_chars + 1, Len(returned.preview))
                    = TruncationMark

\* C19: for every budget tool_result_max_chars >= 0, the tool_result_json of every tool
\* result event is the payload itself when the payload's serialization has at most
\* budget characters, and otherwise {truncated: true, preview: p}, p being the first
\* budget characters of the serialization followed by "... [truncated]".
C19_MetadataPayloadWithinBudget ==
    \A i \in 1..Len(ui_events) :
        IsToolResult(ui_events[i]) =>
            MetadataPayloadAsSpecified(PayloadOf(ui_events[i]), ui_events[i].tool_result_json)

\* C19, witness: with a budget of 7 characters the zoom result, whose serialization has
\* 7, was kept and the get_view result, whose serialization has 11, was cut.
C19_OneKeptOneCut ==
    /\ tool_result_max_chars = 7
    /\ \E i, j \in 1..Len(ui_events) :
          /\ IsToolResult(ui_events[i])
          /\ IsToolResult(ui_events[j])
          /\ ui_events[i].tool_command = CmdZoom
          /\ ~ui_events[i].tool_result_json.truncated
          /\ ui_events[j].tool_command = CmdGetView
          /\ ui_events[j].tool_result_json.truncated

\* C20: every tool message in history, of run_pymol_command and of
\* capture_viewer_snapshot alike, has a content of at most tool_result_max_chars +
\* len("... [truncated]") characters.
C20_ToolMessagesWithinBudget ==
    \A i \in 1..Len(history) :
        history[i].role = "tool" =>
            Len(history[i].content) <= tool_result_max_chars + Len(TruncationMark)

\* the tool messages of run_pymol_command are within the budget
C20_RunCommandMessagesWithinBudget ==
    \A i \in 1..Len(history) :
        (history[i].role = "tool" /\ history[i].name = "run_pymol_command") =>
            Len(history[i].content) <= tool_result_max_chars + Len(TruncationMark)

----------------------------------------------------------------------------
\* Properties of the session state, the control inputs and the history.

\* the fields of a session state dict that the round trip is about
SameSessionFields(a, b) ==
    /\ a.history = b.history
    /\ a.input_mode = b.input_mode
    /\ a.sdk_session_id = b.sdk_session_id

SubmittedText == ui_events'[Len(ui_events) + 1].text

IsControlText(stripped) == StartsWith(stripped, PrefixCli) \/ StartsWith(stripped, PrefixAi)

\* what follows /cli in a stripped control input
CliRest(stripped) == Strip(SubSeq(stripped, Len(PrefixCli) + 1, Len(stripped)))

\* this step gave exactly the command `command`, canonicalized, to the host
ExecutedOnce(command) == cli_commands' = Append(cli_commands, _canonicalize_command(command)[1])

\* a worker is started only for a non-control input typed in ai mode with AI enabled
StartsWorkerOnlyForAiText ==
    threads_started' # threads_started =>
        /\ Submitted
        /\ ~IsControlText(SubmittedText)
        /\ input_mode = "ai"
        /\ enabled

\* in cli mode a non-control input is one host command and starts no worker
CliModeExecutesDirectly ==
    (Submitted /\ ~IsControlText(SubmittedText) /\ input_mode = "cli") =>
        /\ ExecutedOnce(SubmittedText)
        /\ threads_started' = threads_started
        /\ wpc' = wpc

\* a control input starts no worker, in either mode
ControlStartsNoWorker ==
    (Submitted /\ IsControlText(SubmittedText)) =>
        /\ threads_started' = threads_started
        /\ wpc' = wpc

\* '/cli <command>' gives the command to the host once and keeps the mode
OneOffCliCommand ==
    (/\ Submitted
     /\ StartsWith(SubmittedText, PrefixCli)
     /\ CliRest(SubmittedText) \notin {<<>>, <<"o", "n">>, <<"o", "f", "f">>,
                                        <<"h", "e", "l", "p">>}) =>
        /\ ExecutedOnce(CliRest(SubmittedText))
        /\ input_mode' = input_mode

\* C22: handle_typed_input starts an agent request only if the stripped input is
\* non-empty, starts with neither /ai nor /cli, input_mode is ai and enabled is true; in
\* cli mode a non-slash input is executed as exactly one host command and no worker is
\* started; /ai and /cli inputs never start a worker in either mode; '/cli <command>'
\* executes the command once and leaves input_mode unchanged.
C22_ControlAndCliRouting ==
    [][/\ StartsWorkerOnlyForAiText
       /\ CliModeExecutesDirectly
       /\ ControlStartsNoWorker
       /\ OneOffCliCommand]_vars

\* C22, the part the code keeps: the routing of inputs to the worker, to the host and to
\* the control handlers.
C22_RoutingWithoutOneOff ==
    [][StartsWorkerOnlyForAiText /\ CliModeExecutesDirectly /\ ControlStartsNoWorker]_vars

\* '/ai' or '/ai on' without a credential, or with the kill switch set, fails closed
EnableFailsClosed ==
    (Submitted /\ SubmittedText \in {TextAi, TextAiOn} /\ (~api_key_set \/ disable_flag)) =>
        /\ ~enabled'
        /\ Len(NewEvents) = 2
        /\ NewEvents[2].role = "error"
        /\ NewEvents[2].text = IF ~api_key_set THEN MsgNoApiKey ELSE MsgDisableFlagSet
        /\ threads_started' = threads_started
        /\ history' = history

\* a text typed in ai mode while AI is disabled is answered by one error event
DisabledInputRefused ==
    (Submitted /\ ~IsControlText(SubmittedText) /\ input_mode = "ai" /\ ~enabled) =>
        /\ Len(NewEvents) = 2
        /\ NewEvents[2].role = "error"
        /\ NewEvents[2].text = MsgAiDisabled
        /\ threads_started' = threads_started
        /\ wpc' = wpc
        /\ history' = history
        /\ ~enabled'

\* C23: handling '/ai' or '/ai on' while no credential is set or while the kill switch
\* PYMOL_AI_DISABLE is set leaves enabled false and queues, after the user's input,
\* exactly one event, an error stating the reason (so no 'AI enabled' event); an input
\* typed in ai mode while enabled is false queues exactly one 'AI disabled' error event,
\* starts no worker and leaves history unchanged.
C23_EnableFailsClosed == [][EnableFailsClosed /\ DisabledInputRefused]_vars

\* C23, witness: an enable attempt was refused and a text typed afterwards in ai mode was
\* refused too, with no worker started.
C23_RefusedThenDisabledInput ==
    /\ ~enabled
    /\ threads_started = 0
    /\ \E i, j \in DOMAIN ui_events :
          /\ i < j
          /\ ui_events[i].role = "error"
          /\ ui_events[i].text \in {MsgNoApiKey, MsgDisableFlagSet}
          /\ ui_events[j].role = "error"
          /\ ui_events[j].text = MsgAiDisabled

----------------------------------------------------------------------------
\* Properties of draft chats and of load_chat.

\* events were appended to chat c and are in its journal or wait to be flushed
HasEvents(c) ==
    \/ fs_chats[c].events # <<>>
    \/ (current_chat_id = c /\ pending_event_lines # <<>>)

\* chat c is among the chats count_chats counts or is a row of some list_chats result
ListedOrCounted(c) ==
    \/ \E i \in 1..count_chats(index_latest) : index_latest[i].chat_id = c
    \/ Listed(c)

\* the step is a create_chat call made while the draft d was the current chat
CreatesOverDraft(d) ==
    /\ last_op'.op = "create_chat"
    /\ ops_left' = ops_left - 1
    /\ d # NoChat
    /\ d = current_chat_id
    /\ ~HasEvents(d)

\* the draft is no longer current and is not listed when create_chat returns
DraftDropped(d) ==
    /\ current_chat_id' # d
    /\ current_chat_id' = last_op'.chat_id
    /\ ~ListedOrCounted(d)'

DraftsStayUnlisted == \A c \in Chats : ~HasEvents(c) => ~ListedOrCounted(c)

LoadStep == last_op'.op = "load_chat" /\ ops_left' = ops_left - 1

\* a line of events.jsonl that is not a record
Malformed(line) == line.role = ""

\* the lines appended to chat id when load_chat is called: those of its journal, then
\* those that wait to be flushed
AppendedLines(id) ==
    fs_chats[id].events \o (IF id = current_chat_id THEN pending_event_lines ELSE <<>>)

\* load_chat returns None for the chat id
LoadsNothing(id) ==
    IF id = NoChat THEN TRUE
    ELSE ~fs_chats[id].exists \/ fs_chats[id].manifest = UnparseableManifest

\* what the call returned is what the files of the chat hold
LoadedAsStored(id, result) ==
    IF LoadsNothing(id) THEN result = LoadNone
    ELSE /\ result.loaded = "chat"
         /\ result.events = SelectSeq(AppendedLines(id), LAMBDA line : ~Malformed(line))
         /\ ~fs_chats[id].journal => result.events = <<>>
         /\ ~fs_chats[id].session => ~result.session_exists

\* C26: load_chat(id) never raises; it returns None when id is empty or manifest.json
\* is missing or unparseable, and otherwise the records of events.jsonl in the order
\* they were appended, skipping malformed lines, an empty list when the journal is
\* missing, and session_exists = false when no snapshot file exists; events appended to
\* the current chat and not yet flushed are flushed first and included
C26_LoadChatNeverRaises ==
    [][LoadStep =>
          /\ last_op'.result # LoadRaised
          /\ LoadedAsStored(last_op'.chat_id, last_op'.result)
          /\ pending_event_lines' = <<>>]_vars

\* the files of chat id hold no manifest that is JSON other than an object and no
\* journal line that is no UTF-8 text
Readable(id) ==
    IF id = NoChat THEN TRUE
    ELSE /\ fs_chats[id].manifest # NonObjectManifest
         /\ \A i \in 1..Len(fs_chats[id].events) : fs_chats[id].events[i] # UndecodableLine

\* on such files load_chat does what C26 says
LoadChatOnReadableFiles ==
    [][(LoadStep /\ Readable(last_op'.chat_id)) =>
          /\ last_op'.result # LoadRaised
          /\ LoadedAsStored(last_op'.chat_id, last_op'.result)
          /\ pending_event_lines' = <<>>]_vars

\* load_chat returned the records of a journal that holds a line cut short
LoadSkippedTornLine ==
    /\ last_op.op = "load_chat"
    /\ last_op.result.loaded = "chat"
    /\ \E i \in 1..Len(fs_chats[last_op.chat_id].events) :
          fs_chats[last_op.chat_id].events[i] = TornLine
    /\ Len(last_op.result.events) = 1

----------------------------------------------------------------------------
\* Properties of the chat list across close() and a new store.

\* the step closes the store and opens a new one on the same root directory
ReopenStep == last_op'.op = "reopen" /\ ops_left' = ops_left - 1

\* the listing the store has when close() has flushed it
ClosedView == flush_now(StoreState, clock).index_latest

\* list_chats() without a query, every row on one page
FullListing(d) == list_chats(d, <<>>, 0, MaxChats)

\* the new store lists and counts what the closed store did
SameListing ==
    /\ FullListing(index_latest') = FullListing(ClosedView)
    /\ count_chats(index_latest') = count_chats(ClosedView)

\* C33: after any sequence of store operations followed by close(), a new AiChatStore
\* opened on the same root directory returns the same list_chats and count_chats results
\* as the closed store did, also for a store whose view was rebuilt from the manifests on
\* disk
C33_ReopenKeepsListing ==
    [][ReopenStep => SameListing]_vars

\* the chat list of the closed store is what the rows of index.jsonl say
ViewIsIndexReplay == ClosedView = ReplayIndex(<<>>, flush_now(StoreState, clock).fs_index)

\* a store whose view is the replay of index.jsonl is listed the same by the new store,
\* unless the replay lists no chat
ReopenKeepsReplayedListing ==
    [][(ReopenStep /\ ViewIsIndexReplay /\ ClosedView # <<>>) => SameListing]_vars

\* the new store lists a chat that the closed store did not list
ReopenedListsMore ==
    /\ last_op.op = "reopen"
    /\ index_latest # <<>>
    /\ ReplayIndex(<<>>, fs_index) = <<>>

----------------------------------------------------------------------------
\* Properties of the files when the process dies inside flush_now.

\* the step is the death of the process inside flush_now
CrashStep == last_op'.op = "crash" /\ ops_left' = ops_left - 1

\* the lines of a journal that were written to their end
WrittenLines(events) == SelectSeq(events, LAMBDA line : line # TornLine)

\* manifest.json of chat c is a whole manifest and counts no more messages than the
\* journal has lines
ManifestBehindJournal(c) ==
    fs_chats[c].exists =>
        /\ fs_chats[c].manifest \notin {NoManifest, UnparseableManifest, NonObjectManifest}
        /\ fs_chats[c].manifest.chat_id = c
        /\ fs_chats[c].manifest.message_count <= Len(WrittenLines(fs_chats[c].events))

\* at the point where the process died manifest.json is the version of before the
\* flush or the one the flush writes
PreviousOrNewManifest ==
    CrashStep =>
        fs_chats'[current_chat_id].manifest \in {fs_chats[current_chat_id].manifest, manifest}

\* C34: at every intermediate point of flush_now (a crash between any two of its file
\* operations) manifest.json on disk is a complete manifest, the previous or the new
\* version and never a partial write, and its message_count does not exceed the number
\* of lines already written to events.jsonl
C34_ManifestBehindJournal ==
    /\ [](\A c \in Chats : ManifestBehindJournal(c))
    /\ [][PreviousOrNewManifest]_vars

\* the process died after the journal lines of a flush were written and before the
\* manifest was replaced: the journal is ahead of the manifest
C34_DiedBeforeManifestReplaced ==
    /\ last_op.op = "crash"
    /\ last_op.chat_id # NoChat
    /\ last_op.pending > 0
    /\ fs_chats[last_op.chat_id].manifest.message_count = last_op.base - last_op.pending
    /\ Len(WrittenLines(fs_chats[last_op.chat_id].events)) = last_op.base

----------------------------------------------------------------------------
\* Properties of the cancel flag across turns.

\* the step clears the cancel flag
FlagCleared == cancel_event /\ ~cancel_event'

\* a worker that has released _busy has not cleared the flag yet
CleanupPending == \E t \in Threads : wpc[t] = "clear_cancel"

\* C31: a cancel flag set by request_cancel() after a turn has been admitted stays set
\* until that same turn observes it or ends: the cleanup of a previously finished worker,
\* which clears the flag after it has released _busy, never erases a cancellation aimed
\* at the next admitted turn
C31_CancelSurvivesCleanup ==
    [][busy => ~FlagCleared]_vars

\* while a turn is admitted the flag is cleared by no step but the cleanup of an
\* earlier worker
OnlyCleanupClearsFlag ==
    [][(busy /\ FlagCleared) =>
          \E t \in Threads : wpc[t] = "clear_cancel" /\ wpc'[t] = "done"]_vars

\* a cancellation requested for the second turn was erased by the first worker's cleanup:
\* the second worker has started its turn without seeing it
CancelErasedByCleanup ==
    /\ threads_started = 2
    /\ busy
    /\ wpc[1] = "done"
    /\ wpc[2] = "sdk"
    /\ ~cancel_event
    /\ ~worker[2].cancelled
    /\ \E i \in 1..Len(ui_events) : ui_events[i] = UiEvent("system", MsgCancelRequested)

\* the step queues the AI event of a streamed chunk
ChunkEmitted ==
    /\ Len(ui_events') = Len(ui_events) + 1
    /\ ui_events'[Len(ui_events')].stream_chunk

\* the 'request cancelled' events of the turn of worker t, the last one admitted
CancelledEvents(t) ==
    SelectSeq(TurnEvents(t), LAMBDA e : e = UiEvent("system", MsgRequestCancelled))

\* the turn acknowledges a cancellation once: never twice, and once when one of its
\* checks found the flag set
AcknowledgedOnce ==
    \A t \in Threads :
        (t = threads_started) =>
            /\ Len(CancelledEvents(t)) <= 1
            /\ worker[t].cancelled => Len(CancelledEvents(t)) = 1

\* no chunk of a turn is queued after the flag was set during the turn
NoChunkAfterCancel ==
    ChunkEmitted => \A t \in Threads : wpc[t] = "sdk" => ~worker[t].cancel_set

\* C37: once the cancel flag is set during a turn, no AI stream-chunk event is emitted
\* for any chunk delivered afterwards in that turn, and the turn emits the 'request
\* cancelled' system event exactly once however many cancellation checks observe the flag
C37_CancelStopsChunks ==
    /\ []AcknowledgedOnce
    /\ [][NoChunkAfterCancel]_vars

\* as long as no earlier worker has its cleanup pending, a chunk delivered after the
\* flag was set is dropped
NoChunkAfterCancelInFirstTurn ==
    [][(ChunkEmitted /\ threads_started = 1) =>
          \A t \in Threads : wpc[t] = "sdk" => ~worker[t].cancel_set]_vars

\* a chunk of the second turn was dropped for the flag, and after the first worker's
\* cleanup a later chunk of the same turn was queued
ChunkAfterErasedCancel ==
    /\ threads_started = 2
    /\ wpc[1] = "done"
    /\ wpc[2] = "sdk"
    /\ worker[2].cancel_set
    /\ worker[2].chunk_dropped
    /\ ~worker[2].cancelled
    /\ ui_events[Len(ui_events)].stream_chunk
    /\ Len(ui_events) > worker[2].turn_start + 1

----------------------------------------------------------------------------
\* Properties of the event queue.

CompactionNotice == UiEvent("system", MsgCompacted)

IsProtected(event) == event.role \in {"user", "error", "tool_result", "ai"}

IsExpendable(event) == event.role \in {"reasoning", "system"} /\ event # CompactionNotice

\* the pop removed a protected event only from a queue without expendable events, and
\* otherwise removed the oldest expendable event
PopObeysPriority(pop) ==
    LET expendable == {i \in 1..Len(pop.q) : IsExpendable(pop.q[i])}
    IN  /\ IsProtected(pop.q[pop.i]) => expendable = {}
        /\ expendable # {} => pop.i = SetMin(expendable)

\* the step is an emit_ui_event call of EmitUiEvent
EmitStep == emit_log' # emit_log

\* the event the step emitted
StepEvent == emit_log'[Len(emit_log')]

\* C25: when emit_ui_event overflows the queue capacity (ui_max_events > 0), every event
\* the compaction removes is the oldest reasoning or system event of the queue other
\* than the compaction notice; a user, error, tool_result or ai event is removed only
\* from a queue that holds no such event
C25_CompactionSparesProtected ==
    [][(EmitStep /\ ~(StepEvent.role = "system" /\ _is_internal_system_reminder(StepEvent.text)))
       => LET qs == [q |-> Append(ui_events, StepEvent), sent |-> ui_compaction_notice_sent]
              pops == CompactionPops(qs, ui_max_events)
              left == IF pops = <<>> THEN qs.q
                      ELSE RemoveAt(pops[Len(pops)].q, pops[Len(pops)].i)
          IN  /\ \A k \in 1..Len(pops) : PopObeysPriority(pops[k])
              /\ ui_events' \in {left, Append(left, CompactionNotice)}
              /\ Len(pops) > 0 <=> (ui_max_events > 0 /\ Len(ui_events) >= ui_max_events)]_vars

\* with room for two events, a reasoning event was removed before any other, then the
\* oldest protected events when no expendable event was left
C25_ReasoningRemovedFirst ==
    /\ ui_max_events = 2
    /\ drained = <<>>
    /\ Len(emit_log) = 4
    /\ IsProtected(emit_log[1])
    /\ emit_log[2].role = "reasoning"
    /\ IsProtected(emit_log[3])
    /\ IsProtected(emit_log[4])
    /\ ui_events = <<CompactionNotice, emit_log[4]>>


\* the events of a sequence that emit_ui_event does not hide
Visible(events) ==
    SelectSeq(events, LAMBDA e : ~(e.role = "system" /\ _is_internal_system_reminder(e.text)))

\* drain_ui_events on the queue as it is: everything in order without a limit, the first
\* min(n, length) events with limit n, the rest left queued in order
DrainsFromTheFront ==
    /\ drain_ui_events(ui_events, FALSE, 0) = [out |-> ui_events, rest |-> <<>>]
    /\ \A n \in DrainLimits :
          LET d == drain_ui_events(ui_events, TRUE, n)
              k == Min(n, Len(ui_events))
          IN  /\ d.out = SubSeq(ui_events, 1, k)
              /\ d.rest = SubSeq(ui_events, Max(k, 0) + 1, Len(ui_events))

\* nothing emitted so far was lost, duplicated or reordered
NothingLost == drained \o ui_events = Visible(emit_log)

\* the step is an emit_ui_event call that compacts the queue
CompactingStep ==
    /\ EmitStep
    /\ ui_max_events > 0
    /\ Len(Visible(<<StepEvent>>)) + Len(ui_events) > ui_max_events

\* C27: drain_ui_events returns the queued events in emission order, with limit n the
\* first min(n, length) of them, and leaves the rest queued in order; as long as no
\* compaction occurs, under every interleaving of emit_ui_event and drain_ui_events
\* the drained events followed by the queued ones are the emitted non-hidden events,
\* with no loss, duplication or reordering
C27_DrainKeepsEmissionOrder ==
    /\ []DrainsFromTheFront
    /\ [][/\ ~EmitStep =>
                \E has_limit \in BOOLEAN, n \in DrainLimits :
                    LET d == drain_ui_events(ui_events, has_limit, n)
                    IN  drained' = drained \o d.out /\ ui_events' = d.rest
           /\ (NothingLost /\ ~CompactingStep) => NothingLost']_vars

\* two partial drains and emits in between, one of a hidden event, without a capacity
C27_DrainedInTwoParts ==
    /\ ui_max_events = 0
    /\ Len(emit_log) = 4
    /\ Len(Visible(emit_log)) = 3
    /\ drained = SubSeq(Visible(emit_log), 1, 2)
    /\ ui_events = SubSeq(Visible(emit_log), 3, 3)
    /\ emit_log[1].role = "user"
    /\ emit_log[4].role = "tool_result"


\* the compaction notices in the queue
NoticesQueued == {i \in 1..Len(ui_events) : ui_events[i] = CompactionNotice}

\* a notice in the queue was announced by the flag
AtMostOneNotice ==
    /\ Cardinality(NoticesQueued) <= 1
    /\ NoticesQueued # {} => ui_compaction_notice_sent

\* C38: whenever ui_max_events > 0, after every emit_ui_event the queue holds at most
\* ui_max_events events, for every capacity >= 1 and every sequence of emits and partial
\* or full drains, and at most one compaction notice is in the queue at any time
C38_QueueWithinCapacity ==
    /\ []AtMostOneNotice
    /\ [][(EmitStep /\ ui_max_events > 0) => Len(ui_events') <= ui_max_events]_vars

\* a third event overflowed a queue of capacity 2 with nothing drained: an event and the
\* notice are queued
C38_NoticeWithinCapacity ==
    /\ ui_max_events = 2
    /\ drained = <<>>
    /\ Len(Visible(emit_log)) = 3
    /\ Len(emit_log) = 3
    /\ Len(ui_events) = 2
    /\ ui_events[2] = CompactionNotice
    /\ ui_compaction_notice_sent

----------------------------------------------------------------------------
\* Properties of the history bound.

\* no thread is inside _append_history
NoAppendRunning == \A t \in HistoryThreads : appender[t].pc = "idle"

HistoryBounded == NoAppendRunning => Len(history) <= HistoryMax

\* the step stores the slice of an append that exceeded the bound
TruncatingStep == \E t \in HistoryThreads : appender[t].pc = "store" /\ appender'[t].pc = "idle"

\* C28: after every operation that changes history len(history) <= 80, and when an
\* append exceeds the bound the entries discarded are the oldest ones and the entries
\* that remain keep their order
C28_TruncationDropsOldest ==
    /\ []HistoryBounded
    /\ [][TruncatingStep => history' = LastN(history, HistoryMax)]_vars


\* the messages of h that the two threads appended
AppendedIn(h) ==
    SelectSeq(h, LAMBDA m : m.content # <<>> /\ m.content[1] \in HistoryThreads)

\* the number of _append_history calls made
AppendsMade == MaxHistoryAppends - env_left

\* every message appended is in the history once the appends have returned
AppendsKept == NoAppendRunning => Len(AppendedIn(history)) = AppendsMade

\* a step that changes the history appends a message of a thread at its end or discards
\* its oldest entries
HistoryOnlyGrowsOrEvicts ==
    history' # history =>
        \/ \E t \in HistoryThreads : history' = Append(history, appender[t].msg)
        \/ history' = LastN(history, HistoryMax)

\* C32: history appends are never lost or reordered: when a CLI command is executed on
\* the caller thread while an agent worker is appending to history, every message
\* appended by either thread is in the history afterwards, subject only to the eviction
\* of the oldest entries by the 80-entry bound, in the order the appends occurred
C32_HistoryAppendsKept ==
    /\ []AppendsKept
    /\ [][HistoryOnlyGrowsOrEvicts]_vars

\* as long as the history stays below the bound no append is lost
AppendsKeptBelowBound ==
    (NoAppendRunning /\ Len(history) <= MaxHistoryAppends) =>
        Len(AppendedIn(history)) = AppendsMade

\* both threads have appended and a message is missing from a full history
AppendLost ==
    /\ NoAppendRunning
    /\ Len(history) = HistoryMax
    /\ AppendsMade = 2
    /\ Len(AppendedIn(history)) = 1

----------------------------------------------------------------------------
\* Properties of the tool call ids of a turn.

\* the tool_call_id values of the tool_result events of worker t's turn
ToolResultIds(t) ==
    LET results == SelectSeq(TurnEvents(t), IsWorkerToolResult)
    IN  [i \in 1..Len(results) |-> results[i].tool_call_id]

\* the tool_call_id values of the tool messages of the history
ToolMessageIds ==
    LET messages == SelectSeq(history, LAMBDA m : m.role = "tool")
    IN  [i \in 1..Len(messages) |-> messages[i].tool_call_id]

PairwiseDistinct(ids) == \A i, j \in 1..Len(ids) : i # j => ids[i] # ids[j]

\* C29: within one turn (one run of _agent_worker, with a retry after resume_invalid
\* and the automatic validation call) the tool_call_id values of the tool_result events
\* are pairwise distinct, and so are those of the tool messages of the history
C29_ToolCallIdsDistinct ==
    \A t \in Threads :
        (wpc[t] # "unborn" /\ threads_started = 1) =>
            /\ PairwiseDistinct(ToolResultIds(t))
            /\ PairwiseDistinct(ToolMessageIds)

\* as long as the turn has called run_turn once, its ids are distinct
IdsDistinctBeforeRetry ==
    \A t \in Threads :
        (wpc[t] # "unborn" /\ threads_started = 1 /\ Len(worker[t].calls) <= 1) =>
            /\ PairwiseDistinct(ToolResultIds(t))
            /\ PairwiseDistinct(ToolMessageIds)


----------------------------------------------------------------------------
\* Properties of snapshot calls in add_call.

IsSnapshotCall(call) == call.tool_name = "capture_viewer_snapshot"

RECURSIVE ReportsFor(_, _)
\* the values add_call returns for the calls, one after the other, from the detector d
ReportsFor(d, calls) ==
    IF calls = <<>> THEN <<>>
    ELSE <<add_call(d, Head(calls))[2]>> \o ReportsFor(add_call(d, Head(calls))[1], Tail(calls))

\* the reports returned for the calls fed that are no snapshot calls
ReportsOfOtherCalls ==
    LET others == SelectSeq([i \in 1..Len(fed) |-> i], LAMBDA i : ~IsSnapshotCall(fed[i]))
    IN  [k \in 1..Len(others) |-> reports[others[k]]]

\* the reports are those of the same calls without the snapshot calls
SnapshotCallsLeaveReports ==
    ReportsOfOtherCalls =
        ReportsFor(clear(DetectorState), SelectSeq(fed, LAMBDA call : ~IsSnapshotCall(call)))

\* a snapshot call returns None and leaves the three windows
SnapshotCallIgnored ==
    \A call \in DetectorCalls :
        (fed' = Append(fed, call) /\ IsSnapshotCall(call)) =>
            /\ reports' = Append(reports, NoReport)
            /\ <<recent, recent_families, recent_intents>>' =
                   <<recent, recent_families, recent_intents>>

\* C39: add_call with tool name capture_viewer_snapshot returns None and leaves the
\* three windows unchanged, so the reports returned for the other calls equal those for
\* the same sequence with the snapshot calls removed
C39_SnapshotCallsIgnored ==
    /\ []SnapshotCallsLeaveReports
    /\ [][SnapshotCallIgnored]_vars

\* a detector of threshold 2 reported the second of two equal calls with a snapshot
\* call between them
C39_RepeatAcrossSnapshot ==
    /\ threshold = 2
    /\ Len(fed) = 3
    /\ fed[1] = fed[3]
    /\ IsSnapshotCall(fed[2])
    /\ Len(recent) = 2
    /\ reports[1] = NoReport
    /\ reports[2] = NoReport
    /\ reports[3].loop_type = "exact_match"

----------------------------------------------------------------------------
\* Properties of add_assistant_intent.

\* the detector was fed the utterance u and nothing else, k times
FedOnly(u, k) == Len(fed) = k /\ \A i \in 1..k : fed[i] = u

\* the same utterance of 20 normalized characters or more, fed to a fresh detector, is
\* reported on call number threshold and not before
RepeatReportedAtThreshold ==
    \A u \in Utterances, k \in 1..MaxIntentCalls :
        (Len(_normalize_intent_text(u)) >= IntentMinLen /\ FedOnly(u, k) /\ k <= threshold) =>
            /\ \A i \in 1..k : i < threshold => reports[i] = NoReport
            /\ k = threshold => reports[k].loop_type = "assistant_intent_repeat"

\* an utterance that normalizes to the empty text returns None and leaves the window
EmptyIntentIgnored ==
    \A u \in Utterances :
        (fed' = Append(fed, u) /\ _normalize_intent_text(u) = <<>>) =>
            /\ reports' = Append(reports, NoReport)
            /\ recent_intents' = recent_intents

\* C30: for every threshold >= 2, the same utterance (normalized length >= 20) fed
\* threshold times to a fresh detector returns None on calls 1..threshold-1 and an
\* assistant_intent_repeat report on call threshold; utterances that normalize to the
\* empty string return None and do not enter the window
C30_IntentRepeatAtThreshold ==
    /\ [](threshold >= MinThreshold /\ RepeatReportedAtThreshold)
    /\ [][EmptyIntentIgnored]_vars

\* a detector of threshold 3 reported the third of three equal plans
C30_ThirdRepeatReported ==
    /\ threshold = 3
    /\ FedOnly(UtteranceLoad, 3)
    /\ reports[1] = NoReport
    /\ reports[2] = NoReport
    /\ reports[3] = IntentReport(3, _normalize_intent_text(UtteranceLoad))
    /\ Len(reports[3].assistant_intent) = 27

\* the normalized texts that the first k utterances fed put into the window
RecordedIntents(k) ==
    SelectSeq([i \in 1..k |-> _normalize_intent_text(fed[i])], LAMBDA norm : norm # <<>>)

\* some text occurs at least twice in the sequence
OccursTwice(seq) == \E i, j \in 1..Len(seq) : i < j /\ seq[i] = seq[j]

\* call number k returned a report only when a normalized intent occurs at least twice
\* among the last threshold recorded utterances
ReportNeedsRepeat(k) ==
    reports[k] # NoReport => OccursTwice(LastOf(RecordedIntents(k), threshold))

\* C40: for every threshold >= 2, add_assistant_intent returns an assistant_intent_repeat
\* report only when some normalized intent occurs at least twice among the last threshold
\* recorded utterances; pairwise distinct utterances never produce a report
C40_IntentReportNeedsRepeat ==
    /\ threshold >= MinThreshold
    /\ \A k \in 1..Len(reports) : ReportNeedsRepeat(k)
    /\ ~OccursTwice(RecordedIntents(Len(fed))) => \A k \in 1..Len(reports) : reports[k] = NoReport

\* with a threshold of 3 or more a report needs a repeated intent
ReportNeedsRepeatFromThree ==
    threshold >= 3 => \A k \in 1..Len(reports) : ReportNeedsRepeat(k)

\* a detector of threshold 2 reported the second of two different plans
DistinctPlansReported ==
    /\ threshold = 2
    /\ fed = <<UtteranceLoad, UtteranceHide>>
    /\ reports[2] = IntentReport(1, _normalize_intent_text(UtteranceLoad))

----------------------------------------------------------------------------
\* Properties of the flush deadline under pump.

\* the step is a pump call
PumpStep == ops_left' < ops_left /\ last_op'.op = "pump"

\* the step is an append_events call
AppendStep == ops_left' < ops_left /\ last_op'.op = "append_events"

\* an accepted event that is not yet written has waited less than flush_delay_sec
WaitedLessThanDelay(lines, now) ==
    \A i \in 1..Len(lines) : lines[i].ts + FlushDelay > now

\* append_events writes nothing to disk
AppendWritesNothing == AppendStep => (fs_chats' = fs_chats /\ fs_index' = fs_index)

\* a pump call made flush_delay_sec after the last append writes every accepted event,
\* the manifest and the index row
PumpWritesAfterQuietDelay ==
    (PumpStep /\ pending_event_lines # <<>>
        /\ pending_event_lines[Len(pending_event_lines)].ts + FlushDelay <= clock)
    => /\ pending_event_lines' = <<>>
       /\ ~manifest_dirty' /\ ~index_dirty'
       /\ fs_chats'[current_chat_id].events = WriteLines(fs_chats[current_chat_id].events,
                                                         pending_event_lines)

\* append_events writes nothing, and pump writes what was accepted once no event has
\* been appended for flush_delay_sec
PumpWritesOnceAppendsPause == [][AppendWritesNothing /\ PumpWritesAfterQuietDelay]_vars

\* C35: provided pump() keeps being called, every event accepted by append_events is
\* written to events.jsonl, with the manifest and the index row, even when further events
\* keep being appended at intervals no longer than flush_delay_sec: no pump call returns
\* with an accepted event unwritten that has waited flush_delay_sec or longer;
\* append_events itself writes nothing to disk
C35_PumpWritesAcceptedEvents ==
    [][/\ AppendWritesNothing
       /\ PumpStep => WaitedLessThanDelay(pending_event_lines', clock)]_vars

\* a pump call was made flush_delay_sec after an event was accepted, and the event is
\* still unwritten because a later append moved the deadline
PumpLeftOldEventUnwritten ==
    /\ last_op.op = "pump"
    /\ Len(pending_event_lines) = 2
    /\ pending_event_lines[1].ts + FlushDelay <= pending_event_lines[2].ts
    /\ flush_due_at = pending_event_lines[2].ts + FlushDelay
    /\ fs_chats[current_chat_id].events = <<>>

----------------------------------------------------------------------------
\* The session state through the store.

\* the application persists the session state of its runtime in the current chat
PersistSession == SetRuntimeState(current_chat_id, export_session_state(RuntimeSession))

\* the application gives the runtime_state of the chat it just loaded to
\* import_session_state of a runtime just constructed
ResumeSession(apply_model) ==
    /\ ui_pc = "idle"
    /\ ops_left > 0
    /\ ops_left' = ops_left - 1
    /\ last_op.op = "load_chat"
    /\ last_op.result.loaded = "chat"
    /\ LET rt == import_session_state(FreshSession, last_op.result.manifest.runtime_state,
                                      apply_model)
       IN  /\ input_mode' = rt.input_mode
           /\ history' = rt.history
           /\ sdk_session_id' = rt.sdk_session_id
           /\ enabled' = rt.enabled
    /\ stream_full_text' = <<>>
    /\ last_op' = [last_op EXCEPT !.op = "import_session_state"]
    /\ UNCHANGED <<conf_vars, stream_had_output, queue_vars, busy, cancel_event, thread_vars,
                   ui_pc, env_left, ctl_vars, det_vars, fs_chats, fs_index, current_chat_id,
                   manifest, pending_event_lines, manifest_dirty, index_dirty, flush_due_at,
                   scene_dirty, checkpoint_due_at, index_latest, clock, chats_created,
                   removed_chats>>

\* a runtime that took over an earlier session, and the store its application writes
\* the session to and resumes it from
InitResume == InitRuntimeWith(MaxResumeImports) /\ InitStoreWith(MaxResumeOps) /\ InitDetector

NextResume ==
    \/ \E payload \in ImportPayloads, apply_model \in BOOLEAN :
          ImportSessionState(payload, apply_model)
    \/ CreateChat
    \/ \E events \in EventBatches : AppendEvents(current_chat_id, events)
    \/ PersistSession
    \/ FlushNow
    \/ \E chat_id \in Chats : LoadChat(chat_id)
    \/ \E apply_model \in BOOLEAN : ResumeSession(apply_model)

SpecResume == InitResume /\ [][NextResume]_vars

\* the step gives a loaded runtime_state to a new runtime, and the state loaded is the
\* one the store made of the export of the runtime that was running
ResumeStep ==
    /\ ops_left' < ops_left
    /\ last_op'.op = "import_session_state"
    /\ last_op.result.manifest.runtime_state
          = _sanitize_runtime_state(export_session_state(RuntimeSession))

HistoryAndModeReproduced ==
    /\ history' = LastN(history, HistoryMax)
    /\ Len(history') <= HistoryMax
    /\ input_mode' = input_mode

\* the history and the input mode come back from the store
ResumeKeepsHistoryAndMode == [][ResumeStep => HistoryAndModeReproduced]_vars

\* C36: the export of a runtime, persisted with set_runtime_state, flushed, read back
\* with load_chat and imported by a new runtime, gives that runtime the history (at most
\* 80 entries), the input_mode and the sdk_session_id of the exporting runtime
C36_SessionSurvivesStore ==
    [][ResumeStep => (HistoryAndModeReproduced /\ sdk_session_id' = sdk_session_id)]_vars

\* a runtime resumed from the store has a history of 80 entries and the cli mode, and no
\* resumption token, while the chat it was resumed from is the current one, flushed
ResumedWithoutToken ==
    /\ last_op.op = "import_session_state"
    /\ Len(history) = HistoryMax
    /\ input_mode = "cli"
    /\ sdk_session_id = NoSession
    /\ current_chat_id # NoChat
    /\ ~manifest_dirty
    /\ manifest.runtime_state.history = history

====
